---- MODULE Spec2Model ----
(***************************************************************************)
(* Critique-to-annotation pipeline of the thesis review assistant.         *)
(*                                                                         *)
(*   utils/groq_client.py  parse_critique_for_issues, parse_section_       *)
(*                         summaries                                       *)
(*   utils/annotator.py    create_annotated_pdf, add_issue_annotation      *)
(*                                                                         *)
(* Texts are TLA+ strings; the parsers are computed character by character *)
(* the way the regular expressions and substring tests of the source       *)
(* compute them.  Python's None is written None (-1): no integer parsed    *)
(* by int(\d+) is negative.                                                *)
(***************************************************************************)
EXTENDS Integers, Sequences, FiniteSets, TLC

VARIABLES
    pc,                 \* where the function under way stands
    \* parse_critique_for_issues, parse_section_summaries
    critique_text,      \* the argument
    lines,              \* critique_text.split('\n')
    quotes,             \* re.findall(quote_pattern, critique_text)
    i,                  \* the index of the for loop over lines
    current_type,
    current_severity,
    issues,             \* the list built by the issue parser; the argument of the annotator
    section,            \* how many of `sections` the loop has gone through
    summaries,          \* the list built by the section parser
    \* create_annotated_pdf
    doc,                \* the opened document: the text of each page
    section_summaries,  \* argument
    rewrites,           \* argument
    include_legend,     \* argument
    highlighted_texts,
    comment_counter,
    annots,             \* what has been drawn on the document, in drawing order
    idx,                \* issues gone through
    sidx,               \* section summaries gone through
    ridx,               \* rewrites gone through
    fault,              \* the library call that raises in this run, if any
    \* chunk_text
    pages_data,         \* argument: the pages, each with page_num and text
    chunk_size,         \* argument
    overlap,            \* argument
    chunks,             \* the list built
    chunk_id,
    page_idx,           \* pages gone through
    sentences,          \* the sentences of the page under way
    sent_idx,           \* sentences of that page gone through
    current_chunk,
    start_char,
    placed,             \* for each chunk, the sentences the loop put into it itself
    cur_placed,         \* the same for current_chunk
    \* the application (app.py): the upload widget, st.session_state, the clock
    uploaded_file,      \* the file in the upload widget
    original_pdf_bytes,
    uploaded_file_name,
    pdf_processed,
    pdf_data,
    session_chunks,     \* st.session_state.chunks
    collection,
    critique_generated,
    annotated_pdf,
    last_request_time,
    now,                \* time.time()
    relevant_chunks,    \* how many chunks the retrieval of the request under way returned
    steps_run,          \* the steps the process_pdf call under way, or last made, has run
    result,             \* what that call returned: "True", "False", "" while it runs
    error_msg,          \* the message validate_pdf returned to it
    validated,          \* the documents that passed validate_pdf in this session
    last_llm_call,      \* when the latest LLM completion call was made
    stream,             \* the fragments the completion under way delivers
    frag_idx,           \* how many of them `for chunk in stream` has consumed
    full_critique,      \* generate_review's accumulator of the fragments consumed
    \* the vector store (embeddings.py) under several sessions of one process
    client_collections, \* the collections of the process-wide client, by name
    next_uuid,          \* the collection ids the client has handed out
    store_pc,           \* per session: where its create_vector_store call stands
    created,            \* per session: the id of the collection that call created
    held,               \* per session: st.session_state.collection
    retrieved           \* per session: what its latest query returned

issueVars == <<critique_text, lines, quotes, i, current_type, current_severity>>
summaryVars == <<section, summaries>>
annotVars ==
    <<doc, section_summaries, rewrites, include_legend, highlighted_texts,
      comment_counter, annots, idx, sidx, ridx, fault>>

chunkVars ==
    <<pages_data, chunk_size, overlap, chunks, chunk_id, page_idx, sentences, sent_idx,
      current_chunk, start_char, placed, cur_placed>>

\* the variables of the functions modelled after the parsers and the annotator
appVars ==
    <<uploaded_file, original_pdf_bytes, uploaded_file_name, pdf_processed, pdf_data,
      session_chunks, collection, critique_generated, annotated_pdf, last_request_time,
      now, relevant_chunks, steps_run, result, error_msg, validated, last_llm_call,
      stream, frag_idx, full_critique>>

storeVars == <<client_collections, next_uuid, store_pc, created, held, retrieved>>

restVars == <<chunkVars, appVars, storeVars>>

vars == <<pc, issueVars, issues, summaryVars, annotVars, restVars>>

None == -1

(***************************************************************************)
(* String helpers (Python str and re primitives).                          *)
(***************************************************************************)
Char(s, k) == IF k >= 1 /\ k <= Len(s) THEN SubSeq(s, k, k) ELSE ""

\* s.startswith(w, k - 1): w stands at index k of s
LookingAt(s, k, w) ==
    k >= 1 /\ k + Len(w) - 1 <= Len(s) /\ SubSeq(s, k, k + Len(w) - 1) = w

UpperAlpha == "ABCDEFGHIJKLMNOPQRSTUVWXYZ"
LowerAlpha == "abcdefghijklmnopqrstuvwxyz"

\* the upper-case letters mapped to their lower case, and the converse
LowerMap ==
    [c \in {SubSeq(UpperAlpha, k, k) : k \in 1..Len(UpperAlpha)} |->
        LET k == CHOOSE k \in 1..Len(UpperAlpha) : SubSeq(UpperAlpha, k, k) = c
        IN  SubSeq(LowerAlpha, k, k)]
UpperMap ==
    [c \in {SubSeq(LowerAlpha, k, k) : k \in 1..Len(LowerAlpha)} |->
        LET k == CHOOSE k \in 1..Len(LowerAlpha) : SubSeq(LowerAlpha, k, k) = c
        IN  SubSeq(UpperAlpha, k, k)]

\* str.lower() on one character
LowerChar(c) == IF c \in DOMAIN LowerMap THEN LowerMap[c] ELSE c

\* str.upper() on one character
UpperChar(c) == IF c \in DOMAIN UpperMap THEN UpperMap[c] ELSE c

\* str.lower() of s[a..b] (1-based, inclusive), halving the range
RECURSIVE LowerRange(_, _, _)
LowerRange(s, a, b) ==
    IF a > b THEN ""
    ELSE IF a = b THEN LowerChar(Char(s, a))
    ELSE LET m == (a + b) \div 2 IN LowerRange(s, a, m) \o LowerRange(s, m + 1, b)

\* str.lower()
Lower(s) == LowerRange(s, 1, Len(s))

\* `w in s`
Contains(s, w) ==
    \E k \in 1..(Len(s) - Len(w) + 1) : LookingAt(s, k, w)

\* any(word in s for word in words)
AnyIn(s, words) == \E w \in words : Contains(s, w)

\* s.startswith(w)
StartsWith(s, w) == LookingAt(s, 1, w)

\* \s of the re module (ASCII whitespace)
IsSpace(c) == c \in {" ", "\t", "\n", "\r", "\f"}

\* \d of the re module
Digits == "0123456789"
IsDigit(c) == \E k \in 1..Len(Digits) : Char(Digits, k) = c
DigitVal(c) == (CHOOSE k \in 1..Len(Digits) : Char(Digits, k) = c) - 1

\* first index >= k whose character is not whitespace (Len(s)+1 if none)
RECURSIVE SkipSpace(_, _)
SkipSpace(s, k) ==
    IF k <= Len(s) /\ IsSpace(Char(s, k)) THEN SkipSpace(s, k + 1) ELSE k

\* first index >= k whose character is not a digit
RECURSIVE SkipDigits(_, _)
SkipDigits(s, k) ==
    IF k <= Len(s) /\ IsDigit(Char(s, k)) THEN SkipDigits(s, k + 1) ELSE k

\* last index <= k whose character is not whitespace (0 if none)
RECURSIVE BackSpace(_, _)
BackSpace(s, k) ==
    IF k >= 1 /\ IsSpace(Char(s, k)) THEN BackSpace(s, k - 1) ELSE k

\* str.strip()
Strip(s) == SubSeq(s, SkipSpace(s, 1), BackSpace(s, Len(s)))

\* int(digits)
RECURSIVE ToIntFrom(_, _, _)
ToIntFrom(s, k, acc) ==
    IF k > Len(s) THEN acc ELSE ToIntFrom(s, k + 1, 10 * acc + DigitVal(Char(s, k)))

ToInt(s) == ToIntFrom(s, 1, 0)

\* s[:n]
Prefix(s, n) == SubSeq(s, 1, IF Len(s) < n THEN Len(s) ELSE n)

\* the indices of s holding character c, ascending
CharPositions(s, c) ==
    SelectSeq([j \in 1..Len(s) |-> j], LAMBDA j : SubSeq(s, j, j) = c)

\* str.split('\n'): the pieces between consecutive newlines
SplitLines(s) ==
    LET nl == CharPositions(s, "\n") IN
    [t \in 1..(Len(nl) + 1) |->
        SubSeq(s, IF t = 1 THEN 1 ELSE nl[t - 1] + 1,
                  IF t = Len(nl) + 1 THEN Len(s) ELSE nl[t] - 1)]

\* '\n'.join(ls)
RECURSIVE JoinLines(_)
JoinLines(ls) ==
    IF Len(ls) = 0 THEN ""
    ELSE IF Len(ls) = 1 THEN ls[1]
    ELSE ls[1] \o "\n" \o JoinLines(Tail(ls))

Min(a, b) == IF a < b THEN a ELSE b
Max(a, b) == IF a > b THEN a ELSE b

(***************************************************************************)
(* parse_critique_for_issues (utils/groq_client.py).                       *)
(***************************************************************************)
QuoteMin == 20
QuoteMax == 200
SnippetMax == 150
SuggestionMax == 200
FallbackCap == 5
LookAhead == 4

DefaultSuggestion == "Review and improve this section"
FallbackSuggestion == "Review and revise this section"

\* quote_pattern = r'"([^"]{20,200})"' over the ascending indices pos of the
\* '"' characters of s: a span opened at pos[t] can only close at pos[t + 1]
\* ([^"] admits no '"'), and does when 20 to 200 characters lie between.
QuoteSpanAt(pos, t) ==
    /\ t + 1 <= Len(pos)
    /\ pos[t + 1] - pos[t] - 1 >= QuoteMin
    /\ pos[t + 1] - pos[t] - 1 <= QuoteMax

\* re.findall(quote_pattern, s): the non-overlapping spans, left to right
RECURSIVE FindAllQuotesFrom(_, _, _)
FindAllQuotesFrom(s, pos, t) ==
    IF t > Len(pos) THEN <<>>
    ELSE IF QuoteSpanAt(pos, t)
         THEN <<SubSeq(s, pos[t] + 1, pos[t + 1] - 1)>> \o FindAllQuotesFrom(s, pos, t + 2)
         ELSE FindAllQuotesFrom(s, pos, t + 1)

FindAllQuotes(s) == FindAllQuotesFrom(s, CharPositions(s, "\""), 1)

\* re.search(quote_pattern, line): <<group(1)>> of the leftmost span, <<>> if none
SearchQuote(s) ==
    LET pos == CharPositions(s, "\"")
        hits == {t \in 1..Len(pos) : QuoteSpanAt(pos, t)}
        t0 == CHOOSE t \in hits : \A h \in hits : t <= h
    IN  IF hits = {} THEN <<>> ELSE <<SubSeq(s, pos[t0] + 1, pos[t0 + 1] - 1)>>

\* (?:page|pg\.?|p\.)\s*(\d+) tried at index k of the lower-cased text:
\* the digits matched, "" if the pattern does not match there.
PageRefAt(low, k) ==
    LET after == IF LookingAt(low, k, "page") THEN k + 4
                 ELSE IF LookingAt(low, k, "pg")
                      THEN (IF Char(low, k + 2) = "." THEN k + 3 ELSE k + 2)
                 ELSE IF LookingAt(low, k, "p.") THEN k + 2
                 ELSE 0
        d == SkipSpace(low, after)
        e == SkipDigits(low, d)
    IN  IF after = 0 THEN "" ELSE SubSeq(low, d, e - 1)

\* re.search(page_pattern, s, re.IGNORECASE): int(group(1)), None if no match
SearchPage(s) ==
    LET low == Lower(s)
        hits == {k \in 1..Len(low) : PageRefAt(low, k) # ""}
    IN  IF hits = {} THEN None
        ELSE ToInt(PageRefAt(low, CHOOSE k \in hits : \A h \in hits : k <= h))

CriticalWords == {"critical", "major issue", "serious", "fatal", "fundamental"}
MajorWords == {"major", "significant", "important"}
MinorWords == {"minor", "small", "typo", "grammar"}
SuggestionWords == {"suggest", "could", "might", "consider", "recommendation"}
StrengthWords == {"strength", "well-written", "excellent", "good", "clear"}

Severities == {"critical", "major", "minor", "suggestion", "strength"}
Types == {"general", "grammar", "logic", "methodology", "clarity", "strength"}


(***************************************************************************)
(* Critique texts the issue parser is run on.                              *)
(***************************************************************************)
MaxLines == 3

HeadMajor == "## MAJOR Issues"
AnchorStudy == "- \"The study aims to investigate factors affecting student performance.\" (Page 1)"
ProblemLine == "  Problem: too broad"
SuggestionLine == "  Suggestion: specify factors"
HeadStrengths == "## Strengths"
AnchorMeth == "- Methodology \"the sample was chosen by convenience\" p. 2"
AnchorGoodMeth == "Good methodology: \"two groups were compared over a term\""
AnchorCritGrammar == "CRITICAL grammar \"their is no control group in design\""
AnchorFatalLogic == "A fatal flaw in reasoning \"results prove the theory is true\" pg 3"
AnchorLogicCould == "The argument could improve \"students who study more do better\""
AnchorLogicMinor == "minor logic gap \"because it rained the test was hard\""
\* an anchor line whose quoted span is longer than the 150 characters kept of it
AnchorLong == "- \"The participants were drawn from three urban districts and were followed for two school years while their attendance records and test results were gathered monthly.\" (Page 2)"
\* an anchor line whose only keyword stands inside its quoted span
AnchorClearQuoted == "- \"the aim of this paper is clear enough\" (Page 2)"
\* an anchor line with a severity keyword and no category keyword
AnchorMinorOnly == "A minor point: \"the tables are not numbered in order\""
SmallPoints == "Some small points"
ShortQuote == "see \"too short\" here"
SplitQuote == "so on\" and then \"this part is cut across"
SixQuotes == "\"first quoted span aaaa\" \"second quoted span bbb\" \"third quoted span cccc\" \"fourth quoted span ddd\" \"fifth quoted span eeee\" \"sixth quoted span ffff\""

\* the lines critiques are assembled from
LineSet ==
    {HeadMajor, AnchorStudy, HeadStrengths, AnchorMeth, AnchorGoodMeth,
     AnchorCritGrammar, AnchorFatalLogic, AnchorLogicCould, AnchorLogicMinor,
     AnchorLong, AnchorClearQuoted, AnchorMinorOnly, SmallPoints, ShortQuote, SplitQuote,
     SixQuotes}

\* every line that occurs in a critique
AllLines == LineSet \cup {ProblemLine, SuggestionLine}

\* the critique of the end-to-end example (PANELIST_REVIEW_TEMPLATE's layout)
ExampleLines == <<HeadMajor, AnchorStudy, ProblemLine, SuggestionLine>>
ExampleCritique == JoinLines(ExampleLines)

LineSeqs == UNION {[1..n -> LineSet] : n \in 1..MaxLines}

\* the critiques, each as the lines it is joined from
CritiqueLines == {ExampleLines} \cup LineSeqs

TypeWords ==
    {"methodology", "research design", "grammar", "spelling", "typo", "writing",
     "clarity", "style", "logic", "argument", "reasoning"}

Keywords ==
    CriticalWords \cup MajorWords \cup MinorWords \cup SuggestionWords
    \cup StrengthWords \cup TypeWords

(***************************************************************************)
(* The per-line results for the lines of AllLines, computed once: each     *)
(* table holds the value of the operator named in it, and the operators    *)
(* LineLower, Has, LineQuote and LinePage below fall back on that operator *)
(* for any other text.                                                     *)
(***************************************************************************)
LowerMemo == [l \in AllLines |-> Lower(l)]
WordMemo == [l \in {Lower(x) : x \in AllLines} |-> {w \in Keywords : Contains(l, w)}]
QuoteMemo == [l \in AllLines |-> SearchQuote(l)]
PageMemo == [l \in AllLines |-> SearchPage(l)]

\* line.lower()
LineLower(line) == IF line \in DOMAIN LowerMemo THEN LowerMemo[line] ELSE Lower(line)

\* `w in line_lower`
Has(line_lower, w) ==
    IF line_lower \in DOMAIN WordMemo /\ w \in Keywords
    THEN w \in WordMemo[line_lower]
    ELSE Contains(line_lower, w)

\* any(word in line_lower for word in words)
HasAny(line_lower, words) == \E w \in words : Has(line_lower, w)

\* re.search(quote_pattern, line)
LineQuote(line) == IF line \in DOMAIN QuoteMemo THEN QuoteMemo[line] ELSE SearchQuote(line)

\* re.search(page_pattern, line, re.IGNORECASE)
LinePage(line) == IF line \in DOMAIN PageMemo THEN PageMemo[line] ELSE SearchPage(line)

\* "Detect severity level": the classification after the first if/elif chain
\* DetectSeverity with the major list tested before the critical list
DetectSeverityMajorFirst(line_lower, st) ==
    IF HasAny(line_lower, MajorWords) THEN [st EXCEPT !.severity = "major"]
    ELSE IF HasAny(line_lower, CriticalWords) THEN [st EXCEPT !.severity = "critical"]
    ELSE IF HasAny(line_lower, MinorWords) THEN [st EXCEPT !.severity = "minor"]
    ELSE IF HasAny(line_lower, SuggestionWords) THEN [st EXCEPT !.severity = "suggestion"]
    ELSE IF HasAny(line_lower, StrengthWords) THEN [type |-> "strength", severity |-> "strength"]
    ELSE st

\* "Detect severity level": the classification after the first if/elif chain
DetectSeverity(line_lower, st) ==
    IF HasAny(line_lower, CriticalWords) THEN [st EXCEPT !.severity = "critical"]
    ELSE IF HasAny(line_lower, MajorWords) THEN [st EXCEPT !.severity = "major"]
    ELSE IF HasAny(line_lower, MinorWords) THEN [st EXCEPT !.severity = "minor"]
    ELSE IF HasAny(line_lower, SuggestionWords) THEN [st EXCEPT !.severity = "suggestion"]
    ELSE IF HasAny(line_lower, StrengthWords) THEN [type |-> "strength", severity |-> "strength"]
    ELSE st

\* DetectType with the methodology floor left out
DetectTypeNoMethodologyFloor(line_lower, st) ==
    IF Has(line_lower, "methodology") \/ Has(line_lower, "research design")
    THEN [st EXCEPT !.type = "methodology"]
    ELSE IF Has(line_lower, "grammar") \/ Has(line_lower, "spelling")
            \/ Has(line_lower, "typo")
    THEN [type |-> "grammar",
          severity |-> IF st.severity \notin {"critical", "major"}
                       THEN "minor" ELSE st.severity]
    ELSE IF Has(line_lower, "writing") \/ Has(line_lower, "clarity")
            \/ Has(line_lower, "style")
    THEN [st EXCEPT !.type = "clarity"]
    ELSE IF Has(line_lower, "logic") \/ Has(line_lower, "argument")
            \/ Has(line_lower, "reasoning")
    THEN [type |-> "logic",
          severity |-> IF st.severity = "minor" THEN "major" ELSE st.severity]
    ELSE st

\* DetectType with the grammar cap applied to every severity but 'major'
DetectTypeGrammarCapsCritical(line_lower, st) ==
    IF Has(line_lower, "methodology") \/ Has(line_lower, "research design")
    THEN [type |-> "methodology",
          severity |-> IF st.severity \notin {"critical", "strength"}
                       THEN "major" ELSE st.severity]
    ELSE IF Has(line_lower, "grammar") \/ Has(line_lower, "spelling")
            \/ Has(line_lower, "typo")
    THEN [type |-> "grammar",
          severity |-> IF st.severity # "major" THEN "minor" ELSE st.severity]
    ELSE IF Has(line_lower, "writing") \/ Has(line_lower, "clarity")
            \/ Has(line_lower, "style")
    THEN [st EXCEPT !.type = "clarity"]
    ELSE IF Has(line_lower, "logic") \/ Has(line_lower, "argument")
            \/ Has(line_lower, "reasoning")
    THEN [type |-> "logic",
          severity |-> IF st.severity = "minor" THEN "major" ELSE st.severity]
    ELSE st

\* "Detect issue type": the classification after the second if/elif chain
DetectType(line_lower, st) ==
    IF Has(line_lower, "methodology") \/ Has(line_lower, "research design")
    THEN [type |-> "methodology",
          severity |-> IF st.severity \notin {"critical", "strength"}
                       THEN "major" ELSE st.severity]
    ELSE IF Has(line_lower, "grammar") \/ Has(line_lower, "spelling")
            \/ Has(line_lower, "typo")
    THEN [type |-> "grammar",
          severity |-> IF st.severity \notin {"critical", "major"}
                       THEN "minor" ELSE st.severity]
    ELSE IF Has(line_lower, "writing") \/ Has(line_lower, "clarity")
            \/ Has(line_lower, "style")
    THEN [st EXCEPT !.type = "clarity"]
    ELSE IF Has(line_lower, "logic") \/ Has(line_lower, "argument")
            \/ Has(line_lower, "reasoning")
    THEN [type |-> "logic",
          severity |-> IF st.severity = "minor" THEN "major" ELSE st.severity]
    ELSE st

\* the classification state after line `line`, given the state before it
Classify(line, st) ==
    LET line_lower == LineLower(line) IN DetectType(line_lower, DetectSeverity(line_lower, st))

\* "Look for suggestion in next few lines": lines j = k+1 .. min(k+3, n), 1-based
RECURSIVE CollectSuggestion(_, _, _)
CollectSuggestion(ls, j, last) ==
    IF j > last THEN ""
    ELSE (IF Strip(ls[j]) # "" /\ ~StartsWith(ls[j], "#")
          THEN Strip(ls[j]) \o " " ELSE "")
         \o CollectSuggestion(ls, j + 1, last)

\* the guard of the extraction block: '"' in line and i + 1 < len(lines)
\* (k is the 1-based index of the line, so i + 1 = k)
ExtractGuard(ls, k) == Contains(ls[k], "\"") /\ k < Len(ls)

\* the issue appended for line k (1-based) under classification st
MakeIssue(ls, k, st) ==
    LET suggestion == CollectSuggestion(ls, k + 1, Min(k + LookAhead - 1, Len(ls))) IN
    [type |-> st.type,
     severity |-> st.severity,
     text_snippet |-> Prefix(LineQuote(ls[k])[1], SnippetMax),
     suggestion |-> IF Strip(suggestion) # ""
                    THEN Strip(Prefix(suggestion, SuggestionMax))
                    ELSE DefaultSuggestion,
     page_hint |-> LinePage(ls[k])]

\* the issue of the fallback loop for one quote
FallbackIssue(quote) ==
    [type |-> "general", severity |-> "major",
     text_snippet |-> Prefix(quote, SnippetMax),
     suggestion |-> FallbackSuggestion, page_hint |-> None]

\* FallbackQuotes without the cap
FallbackQuotesUncapped(qs) == qs

\* quotes[:5]
FallbackQuotes(qs) == SubSeq(qs, 1, Min(FallbackCap, Len(qs)))

\* the fallback condition: `not issues and quotes`
FallbackGuard(iss, qs) == Len(iss) = 0 /\ Len(qs) > 0
(***************************************************************************)
(* parse_section_summaries (utils/groq_client.py).                         *)
(***************************************************************************)
DefaultScore == 7
ScoreLow == 1
ScoreHigh == 10
ListCap == 3

\* sections
SectionNames ==
    <<"abstract", "introduction", "literature review", "methodology",
      "results", "discussion", "conclusion">>

\* the bullet character U+2022 of the class [-•], which a TLA+ string cannot
\* hold, is written "@"
Bullet == "@"

IsLetter(c) == c \in DOMAIN LowerMap \/ c \in DOMAIN UpperMap

\* str.title() of s[a..b]: a letter that follows no letter is upper-cased,
\* every other letter lower-cased
RECURSIVE TitleRange(_, _, _)
TitleRange(s, a, b) ==
    IF a > b THEN ""
    ELSE IF a = b
         THEN (IF IsLetter(Char(s, a - 1)) THEN LowerChar(Char(s, a)) ELSE UpperChar(Char(s, a)))
    ELSE LET m == (a + b) \div 2 IN TitleRange(s, a, m) \o TitleRange(s, m + 1, b)

Title(s) == TitleRange(s, 1, Len(s))

\* the least element of a non-empty set of integers
Least(S) == CHOOSE x \in S : \A y \in S : x <= y

\* rf'##\s*{section}[^#]*' tried at index k of text (low is its lower case):
\* the index of the last character matched, 0 if the pattern does not match
SectionEndAt(low, k, name) ==
    LET n == SkipSpace(low, k + 2)
        hashes == {h \in (n + Len(name))..Len(low) : Char(low, h) = "#"}
    IN  IF LookingAt(low, k, "##") /\ LookingAt(low, n, name)
        THEN (IF hashes = {} THEN Len(low) ELSE Least(hashes) - 1)
        ELSE 0

\* re.search(section_pattern, text, re.IGNORECASE): <<group(0)>>, <<>> if none
SearchSection(text, name) ==
    LET low == Lower(text)
        hits == {k \in 1..Len(low) : SectionEndAt(low, k, name) # 0}
    IN  IF hits = {} THEN <<>>
        ELSE <<SubSeq(text, Least(hits), SectionEndAt(low, Least(hits), name))>>

\* first index >= k whose character is not in the class cls
RECURSIVE SkipClass(_, _, _)
SkipClass(s, k, cls) ==
    IF k <= Len(s) /\ Char(s, k) \in cls THEN SkipClass(s, k + 1, cls) ELSE k

\* The bullet patterns  <stem><star>*<opt>?:?\s*[-•]\s*([^\n]+) : stems are the
\* literal alternatives, star the class repeated, opt the class taken at most once.
StrengthPatterns ==
    <<[stems |-> {"strength"}, star |-> {}, opt |-> {"s"}],
      [stems |-> {"good"}, star |-> {}, opt |-> {}],
      [stems |-> {"well-written", "well written", "well-done", "well done"},
       star |-> {}, opt |-> {}]>>

IssuePatterns ==
    <<[stems |-> {"issue"}, star |-> {}, opt |-> {"s"}],
      [stems |-> {"problem"}, star |-> {}, opt |-> {"s"}],
      [stems |-> {"concern"}, star |-> {}, opt |-> {"s"}],
      [stems |-> {"weakness"}, star |-> {"e", "s"}, opt |-> {}]>>

SuggestionPatterns ==
    <<[stems |-> {"suggest"}, star |-> {"i", "o", "n"}, opt |-> {"s"}],
      [stems |-> {"recommend"}, star |-> {"a", "t", "i", "o", "n"}, opt |-> {"s"}],
      [stems |-> {"should"}, star |-> {}, opt |-> {}]>>

\* a bullet pattern tried at index k: <<first, last>> indices of group(1),
\* <<>> if the pattern does not match there.  \s* before the group gives back
\* whitespace until the group can start on a character other than a newline.
BulletAt(low, k, pat) ==
    LET stems == {st \in pat.stems : LookingAt(low, k, st)}
        a == k + Len(CHOOSE st \in stems : TRUE)
        b == SkipClass(low, a, pat.star)
        c == IF Char(low, b) \in pat.opt THEN b + 1 ELSE b
        d == IF Char(low, c) = ":" THEN c + 1 ELSE c
        e == SkipSpace(low, d)
        g == SkipSpace(low, e + 1)
        starts == {q \in (e + 1)..g : q <= Len(low) /\ Char(low, q) # "\n"}
        first == CHOOSE q \in starts : \A r \in starts : r <= q
        ends == {q \in first..Len(low) : Char(low, q) = "\n"}
    IN  IF stems = {} THEN <<>>
        ELSE IF Char(low, e) \notin {"-", Bullet} THEN <<>>
        ELSE IF starts = {} THEN <<>>
        ELSE <<first, IF ends = {} THEN Len(low) ELSE Least(ends) - 1>>

\* re.findall(pattern, content, re.IGNORECASE): the groups of the
\* non-overlapping matches from index k on, left to right
RECURSIVE FindAllBulletsFrom(_, _, _, _)
FindAllBulletsFrom(content, low, pat, k) ==
    LET hits == {h \in k..Len(low) : BulletAt(low, h, pat) # <<>>} IN
    IF hits = {} THEN <<>>
    ELSE LET m == BulletAt(low, Least(hits), pat) IN
         <<SubSeq(content, m[1], m[2])>> \o FindAllBulletsFrom(content, low, pat, m[2] + 1)

\* the list extended with the findall of each pattern in turn
RECURSIVE ExtendAll(_, _, _, _)
ExtendAll(content, low, pats, t) ==
    IF t > Len(pats) THEN <<>>
    ELSE FindAllBulletsFrom(content, low, pats[t], 1)
         \o ExtendAll(content, low, pats, t + 1)

\* ScoreAt with a pattern that lets a sign stand before the digits
ScoreAtSkipsSign(low, k) ==
    LET a == k + Len("score")
        b == IF Char(low, a) = ":" THEN a + 1 ELSE a
        c == SkipSpace(low, b)
        c2 == IF Char(low, c) = "-" THEN c + 1 ELSE c
        d == SkipDigits(low, c2)
    IN  IF LookingAt(low, k, "score") THEN SubSeq(low, c2, d - 1) ELSE ""

\* r'score:?\s*(\d+)(?:/10)?' tried at index k: the digits of group(1), "" if no match
ScoreAt(low, k) ==
    LET a == k + Len("score")
        b == IF Char(low, a) = ":" THEN a + 1 ELSE a
        c == SkipSpace(low, b)
        d == SkipDigits(low, c)
    IN  IF LookingAt(low, k, "score") THEN SubSeq(low, c, d - 1) ELSE ""

\* re.search(score pattern, content, re.IGNORECASE): int(group(1)), None if no match
SearchScore(content) ==
    LET low == Lower(content)
        hits == {k \in 1..Len(low) : ScoreAt(low, k) # ""}
    IN  IF hits = {} THEN None ELSE ToInt(ScoreAt(low, Least(hits)))

\* ClampScore without the lower bound
ClampScoreUpperOnly(score) == Min(ScoreHigh, score)

\* min(10, max(1, score))
ClampScore(score) == Min(ScoreHigh, Max(ScoreLow, score))

\* the score of a section: the default unless the pattern matches
SectionScore(content) ==
    LET score == SearchScore(content) IN IF score = None THEN DefaultScore ELSE score

\* the summary appended for a section with content `content`, <<>> when
\* strengths, issues and suggestions are all empty
SummaryOf(name, content) ==
    LET low == Lower(content)
        strengths == ExtendAll(content, low, StrengthPatterns, 1)
        found == ExtendAll(content, low, IssuePatterns, 1)
        suggestions == ExtendAll(content, low, SuggestionPatterns, 1)
    IN  IF Len(strengths) + Len(found) + Len(suggestions) = 0 THEN <<>>
        ELSE <<[section |-> Title(name),
                page_num |-> SearchPage(content),
                strengths |-> SubSeq(strengths, 1, Min(ListCap, Len(strengths))),
                issues |-> SubSeq(found, 1, Min(ListCap, Len(found))),
                suggestions |-> SubSeq(suggestions, 1, Min(ListCap, Len(suggestions))),
                score |-> ClampScore(SectionScore(content))]>>

(***************************************************************************)
(* Critique texts the section parser is run on: a section block is a       *)
(* heading, a findings line and a score line.                              *)
(***************************************************************************)
MaxScore == 11

\* str(n) for n >= 0
RECURSIVE ToDigits(_)
ToDigits(n) ==
    IF n < 10 THEN Char(Digits, n + 1)
    ELSE ToDigits(n \div 10) \o Char(Digits, (n % 10) + 1)

Headings == {"## Methodology", "##RESULTS"}

FindingLines ==
    {"Strengths: - clear design", "Issues: - small sample",
     "Recommendations @ add controls (p. 3)", "nothing is listed here"}

ScoreLines ==
    {"Score: " \o ToDigits(n) \o "/10" : n \in 0..MaxScore}
    \cup {"Score: 99/10", "Score: -5", "score 3", "unscored"}

SecondBlock == "## Discussion (page 4)\nConcerns: - overclaiming\nWeaknesses: - thin data\nScore: 0"

SectionBlocks == {JoinLines(<<h, f, sc>>) : h \in Headings, f \in FindingLines, sc \in ScoreLines}

SummaryTexts == SectionBlocks \cup {b \o "\n" \o SecondBlock : b \in SectionBlocks}

(***************************************************************************)
(* create_annotated_pdf and add_issue_annotation (utils/annotator.py).     *)
(* A page is its text; page.search_for(needle) finds the needle when it    *)
(* is a substring of the page text.  Page numbers are 0-based as in the    *)
(* source, so page n of doc is doc[n + 1].                                 *)
(***************************************************************************)
SearchLimit == 20
SearchChars == 50

(***************************************************************************)
(* Documents and findings the annotator is run on.                         *)
(***************************************************************************)
MaxPages == 3
MaxIssues == 2

SnipA == "The study aims to investigate factors affecting student performance."
SnipB == "Data were collected in spring."

\* PageA holds the first 50 characters of SnipA, not all of it
PageA == "1 Introduction. The study aims to investigate factors affecting student achievement in schools."
PageB == "2 Method. Data were collected in spring. The sample is small."

PageSet == {PageA, PageB}

\* a document longer than the search limit, SnipA only on its last page
LongDoc == [n \in 1..(SearchLimit + 1) |-> IF n = SearchLimit + 1 THEN PageA ELSE ""]

Docs == {LongDoc} \cup UNION {[1..n -> PageSet] : n \in 1..MaxPages}

Hints == {None, 0, 1, 2, 3}

IssueInputs ==
    {[type |-> "general", severity |-> "major", text_snippet |-> sn,
      suggestion |-> "Review and revise this section", page_hint |-> h] :
        sn \in {SnipA, SnipB}, h \in Hints}

IssueLists == UNION {[1..n -> IssueInputs] : n \in 0..MaxIssues}

SummaryInput(p) ==
    [section |-> "Methodology", page_num |-> p, strengths |-> <<"clear design">>,
     issues |-> <<>>, suggestions |-> <<>>, score |-> 7]

RewriteInput(p) ==
    [original |-> "Data were collected", suggested |-> "We collected data",
     explanation |-> "Improves clarity and correctness", page_num |-> p]

\* the remaining arguments of a call
CallShapes ==
    {[include_legend |-> TRUE, section_summaries |-> <<>>, rewrites |-> <<>>],
     [include_legend |-> FALSE,
      section_summaries |-> <<SummaryInput(1), SummaryInput(None),
                              SummaryInput(MaxPages + 1)>>,
      rewrites |-> <<RewriteInput(2), RewriteInput(None)>>]}

\* A library call that raises: step names the call, at the finding it is made
\* for.  "search" is page.search_for in add_issue_annotation, "highlight"
\* page.add_highlight_annot in add_highlight, "comment" the drawing calls of
\* add_margin_comment, "note" page.add_text_annot in add_sticky_note,
\* "summary_box" the drawing calls of add_section_summary_box,
\* "rewrite_search" page.search_for and "rewrite_box" page.add_underline_annot
\* in add_inline_rewrite.
NoFault == [step |-> "none", at |-> 0]

IssueSteps == {"search", "highlight", "comment", "note"}
RewriteSteps == {"rewrite_search", "rewrite_box"}

Faults ==
    {NoFault}
    \cup {[step |-> st, at |-> k] : st \in IssueSteps, k \in 1..MaxIssues}
    \cup {[step |-> st, at |-> k] : st \in {"summary_box"} \cup RewriteSteps, k \in 1..2}

\* the documents of the runs in which a call raises
FaultDocs == {<<PageB>>, <<PageA, PageB>>}

\* the page texts and the search texts of these documents and findings
PageTexts == PageSet \cup {""}
SearchTexts ==
    {Prefix(x.text_snippet, SearchChars) : x \in IssueInputs}
    \cup {Prefix(RewriteInput(1).original, SearchChars)}

\* page.search_for(needle) for each page text and search text, computed once:
\* the library searches the page text without regard to the case of letters
SearchMemo ==
    [p \in PageTexts |->
        [needle \in SearchTexts |-> needle # "" /\ Contains(Lower(p), Lower(needle))]]


\* the truth value Python gives page_hint in `if page_hint`
Truthy(x) == x # None /\ x # 0

\* range(a, b)
Range(a, b) == [t \in 1..(IF b > a THEN b - a ELSE 0) |-> a + t - 1]

\* doc.page_count
PageCount(d) == Len(d)

\* bool(page.search_for(needle)) on page n of d
SearchFor(d, n, needle) == SearchMemo[d[n + 1]][needle]

\* "Determine pages to search"
\* PagesToSearch with a window that starts at the hinted page
PagesToSearchFromHint(d, page_hint) ==
    IF Truthy(page_hint)
    THEN Range(Max(0, page_hint - 1), Min(PageCount(d), page_hint + 1))
    ELSE Range(0, Min(SearchLimit, PageCount(d)))

\* pages_to_search, as a sequence of page indexes
PagesToSearch(d, page_hint) ==
    IF Truthy(page_hint)
    THEN Range(Max(0, page_hint - 2), Min(PageCount(d), page_hint + 1))
    ELSE Range(0, Min(SearchLimit, PageCount(d)))

\* the first page of pages on which the needle is found, None if on none
FirstMatch(d, pages, needle) ==
    LET hits == {t \in 1..Len(pages) : SearchFor(d, pages[t], needle)} IN
    IF hits = {} THEN None ELSE pages[Least(hits)]

\* AddIssueAnnotation without the "Skip if already highlighted" test
AddIssueAnnotationNoSkip(d, issue, highlighted, counter) ==
    LET text_snippet == issue.text_snippet
        page_hint == issue.page_hint
        found == FirstMatch(d, PagesToSearch(d, page_hint), Prefix(text_snippet, SearchChars))
    IN  IF found # None
        THEN [drawn |-> <<[kind |-> "highlight", page |-> found, num |-> None,
                           text |-> Prefix(text_snippet, SearchChars)],
                          [kind |-> "comment", page |-> found, num |-> counter,
                           text |-> issue.suggestion]>>,
              highlighted |-> highlighted \cup {text_snippet},
              result |-> counter + 1]
        ELSE IF Truthy(page_hint) /\ 0 <= page_hint - 1 /\ page_hint - 1 < PageCount(d)
        THEN [drawn |-> <<[kind |-> "note", page |-> page_hint - 1, num |-> counter,
                           text |-> issue.suggestion]>>,
              highlighted |-> highlighted,
              result |-> counter + 1]
        ELSE [drawn |-> <<>>, highlighted |-> highlighted, result |-> counter]

\* AddIssueAnnotation with a fallback note on the first page also for an issue
\* without page_hint
AddIssueAnnotationNoteWithoutHint(d, issue, highlighted, counter) ==
    LET text_snippet == issue.text_snippet
        page_hint == issue.page_hint
        found == FirstMatch(d, PagesToSearch(d, page_hint), Prefix(text_snippet, SearchChars))
    IN  IF text_snippet \in highlighted
        THEN [drawn |-> <<>>, highlighted |-> highlighted, result |-> counter]
        ELSE IF found # None
        THEN [drawn |-> <<[kind |-> "highlight", page |-> found, num |-> None,
                           text |-> Prefix(text_snippet, SearchChars)],
                          [kind |-> "comment", page |-> found, num |-> counter,
                           text |-> issue.suggestion]>>,
              highlighted |-> highlighted \cup {text_snippet},
              result |-> counter + 1]
        ELSE IF PageCount(d) > 0
        THEN [drawn |-> <<[kind |-> "note", page |-> IF Truthy(page_hint) /\ page_hint - 1 < PageCount(d) THEN page_hint - 1 ELSE 0, num |-> counter,
                           text |-> issue.suggestion]>>,
              highlighted |-> highlighted,
              result |-> counter + 1]
        ELSE [drawn |-> <<>>, highlighted |-> highlighted, result |-> counter]

\* AddIssueAnnotation with a skip of a duplicate that uses up a number
AddIssueAnnotationSkipCounts(d, issue, highlighted, counter) ==
    LET text_snippet == issue.text_snippet
        page_hint == issue.page_hint
        found == FirstMatch(d, PagesToSearch(d, page_hint), Prefix(text_snippet, SearchChars))
    IN  IF text_snippet \in highlighted
        THEN [drawn |-> <<>>, highlighted |-> highlighted, result |-> counter + 1]
        ELSE IF found # None
        THEN [drawn |-> <<[kind |-> "highlight", page |-> found, num |-> None,
                           text |-> Prefix(text_snippet, SearchChars)],
                          [kind |-> "comment", page |-> found, num |-> counter,
                           text |-> issue.suggestion]>>,
              highlighted |-> highlighted \cup {text_snippet},
              result |-> counter + 1]
        ELSE IF Truthy(page_hint) /\ 0 <= page_hint - 1 /\ page_hint - 1 < PageCount(d)
        THEN [drawn |-> <<[kind |-> "note", page |-> page_hint - 1, num |-> counter,
                           text |-> issue.suggestion]>>,
              highlighted |-> highlighted,
              result |-> counter + 1]
        ELSE [drawn |-> <<>>, highlighted |-> highlighted, result |-> counter]

\* AddIssueAnnotation with a fallback that returns the counter as it was
AddIssueAnnotationNoteKeepsCounter(d, issue, highlighted, counter) ==
    LET text_snippet == issue.text_snippet
        page_hint == issue.page_hint
        found == FirstMatch(d, PagesToSearch(d, page_hint), Prefix(text_snippet, SearchChars))
    IN  IF text_snippet \in highlighted
        THEN [drawn |-> <<>>, highlighted |-> highlighted, result |-> counter]
        ELSE IF found # None
        THEN [drawn |-> <<[kind |-> "highlight", page |-> found, num |-> None,
                           text |-> Prefix(text_snippet, SearchChars)],
                          [kind |-> "comment", page |-> found, num |-> counter,
                           text |-> issue.suggestion]>>,
              highlighted |-> highlighted \cup {text_snippet},
              result |-> counter + 1]
        ELSE IF Truthy(page_hint) /\ 0 <= page_hint - 1 /\ page_hint - 1 < PageCount(d)
        THEN [drawn |-> <<[kind |-> "note", page |-> page_hint - 1, num |-> counter,
                           text |-> issue.suggestion]>>,
              highlighted |-> highlighted,
              result |-> counter]
        ELSE [drawn |-> <<>>, highlighted |-> highlighted, result |-> counter]

\* add_issue_annotation: what it draws, highlighted_texts afterwards and the
\* value it returns
AddIssueAnnotation(d, issue, highlighted, counter) ==
    LET text_snippet == issue.text_snippet
        page_hint == issue.page_hint
        found == FirstMatch(d, PagesToSearch(d, page_hint), Prefix(text_snippet, SearchChars))
    IN  IF text_snippet \in highlighted
        THEN [drawn |-> <<>>, highlighted |-> highlighted, result |-> counter]
        ELSE IF found # None
        THEN [drawn |-> <<[kind |-> "highlight", page |-> found, num |-> None,
                           text |-> Prefix(text_snippet, SearchChars)],
                          [kind |-> "comment", page |-> found, num |-> counter,
                           text |-> issue.suggestion]>>,
              highlighted |-> highlighted \cup {text_snippet},
              result |-> counter + 1]
        ELSE IF Truthy(page_hint) /\ 0 <= page_hint - 1 /\ page_hint - 1 < PageCount(d)
        THEN [drawn |-> <<[kind |-> "note", page |-> page_hint - 1, num |-> counter,
                           text |-> issue.suggestion]>>,
              highlighted |-> highlighted,
              result |-> counter + 1]
        ELSE [drawn |-> <<>>, highlighted |-> highlighted, result |-> counter]

\* add_section_summary_box: what it draws.  page_num None makes
\* `summary.get('page_num', 1) - 1` raise, which the except clause swallows.
AddSectionSummaryBox(d, summary) ==
    IF summary.page_num = None THEN <<>>
    ELSE IF summary.page_num - 1 < 0 \/ summary.page_num - 1 >= PageCount(d) THEN <<>>
    ELSE <<[kind |-> "summary_box", page |-> summary.page_num - 1, num |-> None,
            text |-> summary.section]>>

\* AddInlineRewrite with the default of `rewrite.get('page_num', 1)` taken for a
\* page_num of None
AddInlineRewriteNoneIsFirstPage(d, rewrite) ==
    LET page_num == IF rewrite.page_num = None THEN 0 ELSE rewrite.page_num - 1 IN
    IF page_num < 0 \/ page_num >= PageCount(d) THEN <<>>
    ELSE IF SearchFor(d, page_num, Prefix(rewrite.original, SearchChars))
    THEN <<[kind |-> "underline", page |-> page_num, num |-> None,
            text |-> rewrite.suggested],
           [kind |-> "rewrite_box", page |-> page_num, num |-> None,
            text |-> rewrite.suggested],
           [kind |-> "rewrite_note", page |-> page_num, num |-> None,
            text |-> rewrite.suggested]>>
    ELSE <<>>

\* add_inline_rewrite: what it draws.  page_num None makes the first statement
\* raise before page_num is bound, so the fallback in the except clause raises
\* too and draws nothing; text that is not found raises nothing and draws nothing.
AddInlineRewrite(d, rewrite) ==
    IF rewrite.page_num = None THEN <<>>
    ELSE IF rewrite.page_num - 1 < 0 \/ rewrite.page_num - 1 >= PageCount(d) THEN <<>>
    ELSE IF SearchFor(d, rewrite.page_num - 1, Prefix(rewrite.original, SearchChars))
    THEN <<[kind |-> "underline", page |-> rewrite.page_num - 1, num |-> None,
            text |-> rewrite.suggested],
           [kind |-> "rewrite_box", page |-> rewrite.page_num - 1, num |-> None,
            text |-> rewrite.suggested],
           [kind |-> "rewrite_note", page |-> rewrite.page_num - 1, num |-> None,
            text |-> rewrite.suggested]>>
    ELSE <<>>

\* the drawings rs marked with the index k of the finding they were drawn for
\* (0 for the legend)
DrawnFor(rs, k) ==
    [t \in 1..Len(rs) |->
        [kind |-> rs[t].kind, page |-> rs[t].page, num |-> rs[t].num,
         text |-> rs[t].text, for |-> k]]

\* the call `step` made for finding k raises in this run
FaultAt(step, k) == fault = [step |-> step, at |-> k]

\* add_issue_annotation reaches page.search_for for this issue
ReachesSearch(d, issue, highlighted) ==
    /\ issue.text_snippet \notin highlighted
    /\ Len(PagesToSearch(d, issue.page_hint)) > 0

\* What is left of the drawings of add_issue_annotation for issue k when a
\* drawing call raises: add_highlight and add_sticky_note swallow the
\* exception and draw nothing, add_margin_comment falls back to a sticky note
\* at the matched text.
IssueDrawingsAfterFault(drawn, k) ==
    IF FaultAt("highlight", k) THEN SelectSeq(drawn, LAMBDA a : a.kind # "highlight")
    ELSE IF FaultAt("note", k) THEN SelectSeq(drawn, LAMBDA a : a.kind # "note")
    ELSE IF FaultAt("comment", k)
    THEN [t \in 1..Len(drawn) |->
            IF drawn[t].kind = "comment"
            THEN [kind |-> "comment_note", page |-> drawn[t].page, num |-> drawn[t].num,
                  text |-> drawn[t].text]
            ELSE drawn[t]]
    ELSE drawn

\* add_section_summary_box when a drawing call may raise: the except clause
\* passes
SummaryBoxAfterFault(d, summary, k) ==
    IF FaultAt("summary_box", k) THEN <<>> ELSE AddSectionSummaryBox(d, summary)

\* add_inline_rewrite when a call may raise after page_num is bound and found
\* to be a page: the except clause places the fallback sticky note
InlineRewriteAfterFault(d, rewrite, k) ==
    LET on_page == /\ rewrite.page_num # None
                   /\ rewrite.page_num - 1 >= 0
                   /\ rewrite.page_num - 1 < PageCount(d)
        raises == \/ FaultAt("rewrite_search", k)
                  \/ /\ FaultAt("rewrite_box", k)
                     /\ SearchFor(d, rewrite.page_num - 1, Prefix(rewrite.original, SearchChars))
    IN  IF on_page /\ raises
        THEN <<[kind |-> "rewrite_fallback", page |-> rewrite.page_num - 1, num |-> None,
                text |-> rewrite.suggested]>>
        ELSE AddInlineRewrite(d, rewrite)

(***************************************************************************)
(* parse_critique_for_issues as a state machine: one step per line of the  *)
(* for loop, then the fallback and the return.  i is the loop index.       *)
(***************************************************************************)
IssuesStart ==
    /\ \E ls \in CritiqueLines : critique_text = JoinLines(ls)
    /\ lines = SplitLines(critique_text)
    /\ quotes = FindAllQuotes(critique_text)
    /\ i = 0
    /\ current_type = "general"
    /\ current_severity = "major"
    /\ issues = <<>>
    /\ pc = "scan"

\* one iteration of `for i, line in enumerate(lines)`
ScanLine ==
    /\ pc = "scan"
    /\ i < Len(lines)
    /\ LET st == Classify(lines[i + 1], [type |-> current_type, severity |-> current_severity])
       IN  /\ current_type' = st.type
           /\ current_severity' = st.severity
           /\ issues' = IF ExtractGuard(lines, i + 1) /\ LineQuote(lines[i + 1]) # <<>>
                        THEN Append(issues, MakeIssue(lines, i + 1, st))
                        ELSE issues
    /\ i' = i + 1
    /\ UNCHANGED <<restVars, pc, critique_text, lines, quotes, summaryVars, annotVars>>

\* after the loop: the fallback from quotes, and the return
FinishIssues ==
    /\ pc = "scan"
    /\ i = Len(lines)
    /\ issues' = IF FallbackGuard(issues, quotes)
                 THEN [k \in 1..Len(FallbackQuotes(quotes)) |-> FallbackIssue(quotes[k])]
                 ELSE issues
    /\ pc' = "done"
    /\ UNCHANGED <<restVars, issueVars, summaryVars, annotVars>>

NextIssues == ScanLine \/ FinishIssues

(***************************************************************************)
(* parse_section_summaries as a state machine: one step per section name.  *)
(***************************************************************************)
SummariesStart ==
    /\ critique_text \in SummaryTexts
    /\ section = 0
    /\ summaries = <<>>
    /\ pc = "sections"

\* one iteration of `for section in sections`
SectionStep ==
    /\ pc = "sections"
    /\ section < Len(SectionNames)
    /\ \E m \in {SearchSection(critique_text, SectionNames[section + 1])} :
          summaries' = IF m = <<>> THEN summaries
                       ELSE summaries \o SummaryOf(SectionNames[section + 1], m[1])
    /\ section' = section + 1
    /\ UNCHANGED <<restVars, pc, issueVars, issues, annotVars>>

\* the return
FinishSummaries ==
    /\ pc = "sections"
    /\ section = Len(SectionNames)
    /\ pc' = "done"
    /\ UNCHANGED <<restVars, issueVars, issues, summaryVars, annotVars>>

NextSummaries == SectionStep \/ FinishSummaries

(***************************************************************************)
(* create_annotated_pdf as a state machine: the legend, one step per       *)
(* issue, per section summary and per rewrite, then the save.              *)
(***************************************************************************)
AnnotateStart ==
    /\ doc \in Docs
    /\ issues \in IssueLists
    /\ \E shape \in CallShapes :
          /\ include_legend = shape.include_legend
          /\ section_summaries = shape.section_summaries
          /\ rewrites = shape.rewrites
    /\ highlighted_texts = {}
    /\ comment_counter = 1
    /\ annots = <<>>
    /\ idx = 0 /\ sidx = 0 /\ ridx = 0
    /\ fault = NoFault
    /\ pc = "open"

\* a call in which one library call raises
AnnotateFaultStart ==
    /\ doc \in FaultDocs
    /\ issues \in IssueLists
    /\ \E shape \in CallShapes :
          /\ include_legend = shape.include_legend
          /\ section_summaries = shape.section_summaries
          /\ rewrites = shape.rewrites
    /\ highlighted_texts = {}
    /\ comment_counter = 1
    /\ annots = <<>>
    /\ idx = 0 /\ sidx = 0 /\ ridx = 0
    /\ fault \in Faults
    /\ pc = "open"

\* "Add annotation legend to first page"
AddLegend ==
    /\ pc = "open"
    /\ annots' = IF include_legend /\ PageCount(doc) > 0
                 THEN Append(annots, [kind |-> "legend", page |-> 0, num |-> None,
                                      text |-> "ANNOTATION LEGEND", for |-> 0])
                 ELSE annots
    /\ pc' = "annotate"
    /\ UNCHANGED <<restVars, issueVars, issues, summaryVars, doc, section_summaries, rewrites,
                   include_legend, highlighted_texts, comment_counter, idx, sidx, ridx,
                   fault>>

\* one iteration of `for issue in issues`; an exception of page.search_for
\* leaves add_issue_annotation and create_annotated_pdf
AnnotateIssue ==
    /\ pc = "annotate"
    /\ idx < Len(issues)
    /\ LET r == AddIssueAnnotation(doc, issues[idx + 1], highlighted_texts, comment_counter)
       IN  IF FaultAt("search", idx + 1) /\ ReachesSearch(doc, issues[idx + 1], highlighted_texts)
           THEN /\ pc' = "raised"
                /\ UNCHANGED <<annots, highlighted_texts, comment_counter, idx>>
           ELSE /\ annots' = annots \o DrawnFor(IssueDrawingsAfterFault(r.drawn, idx + 1), idx + 1)
                /\ highlighted_texts' = r.highlighted
                /\ comment_counter' = r.result
                /\ idx' = idx + 1
                /\ pc' = pc
    /\ UNCHANGED <<restVars, issueVars, issues, summaryVars, doc, section_summaries, rewrites,
                   include_legend, sidx, ridx, fault>>

\* one iteration of `for summary in section_summaries`
AddSummary ==
    /\ pc = "annotate"
    /\ idx = Len(issues)
    /\ sidx < Len(section_summaries)
    /\ annots' = annots \o DrawnFor(SummaryBoxAfterFault(doc, section_summaries[sidx + 1],
                                                          sidx + 1), sidx + 1)
    /\ sidx' = sidx + 1
    /\ UNCHANGED <<restVars, pc, issueVars, issues, summaryVars, doc, section_summaries, rewrites,
                   include_legend, highlighted_texts, comment_counter, idx, ridx, fault>>

\* one iteration of `for rewrite in rewrites`
AddRewrite ==
    /\ pc = "annotate"
    /\ idx = Len(issues)
    /\ sidx = Len(section_summaries)
    /\ ridx < Len(rewrites)
    /\ annots' = annots \o DrawnFor(InlineRewriteAfterFault(doc, rewrites[ridx + 1], ridx + 1),
                                     ridx + 1)
    /\ ridx' = ridx + 1
    /\ UNCHANGED <<restVars, pc, issueVars, issues, summaryVars, doc, section_summaries, rewrites,
                   include_legend, highlighted_texts, comment_counter, idx, sidx, fault>>

\* "Save to bytes" and the return
SaveDocument ==
    /\ pc = "annotate"
    /\ idx = Len(issues)
    /\ sidx = Len(section_summaries)
    /\ ridx = Len(rewrites)
    /\ pc' = "done"
    /\ UNCHANGED <<restVars, issueVars, issues, summaryVars, annotVars>>

NextAnnotate == AddLegend \/ AnnotateIssue \/ AddSummary \/ AddRewrite \/ SaveDocument

(***************************************************************************)
(* chunk_text (utils/pdf_processor.py).                                    *)
(***************************************************************************)
\* the characters a sentence may end on: [.!?]
SentenceEnds == {".", "!", "?"}

\* re.split(r'(?<=[.!?])\s+', text): the pieces between the runs of white
\* space that follow a sentence end
SplitSentences(text) ==
    LET cuts == SelectSeq([j \in 1..Len(text) |-> j],
                          LAMBDA j : /\ IsSpace(Char(text, j))
                                     /\ Char(text, j - 1) \in SentenceEnds)
    IN  [t \in 1..(Len(cuts) + 1) |->
            SubSeq(text,
                   IF t = 1 THEN 1 ELSE SkipSpace(text, cuts[t - 1]),
                   IF t = Len(cuts) + 1 THEN Len(text) ELSE cuts[t] - 1)]

\* s[-n:] for n >= 0: the whole of s when n is 0
LastChars(s, n) ==
    IF n = 0 \/ n >= Len(s) THEN s ELSE SubSeq(s, Len(s) - n + 1, Len(s))

\* the dictionary appended to chunks
MakeChunk(cur, id, page_num, start) ==
    [text |-> Strip(cur), chunk_id |-> id, page_num |-> page_num,
     start_char |-> start, end_char |-> start + Len(cur)]

\* ClosedChunkId without the increment
ClosedChunkIdKept(id) == id

\* `chunk_id += 1` after a chunk is closed inside a page
ClosedChunkId(id) == id + 1

\* "If adding this sentence exceeds chunk_size, save current chunk"
ClosesChunk(cur, sentence, size) == Len(cur) + Len(sentence) > size /\ cur # ""

\* current_chunk after the chunk cur was closed on `sentence`
SeedChunk(cur, sentence, ov) ==
    IF Len(cur) > ov THEN LastChars(cur, ov) \o " " \o sentence ELSE sentence

\* SeedStart measured on the closed chunk: the new chunk starts where its
\* overlap starts
SeedStartAdvances(start, cur, sentence, ov) ==
    IF Len(cur) > ov THEN start + Len(cur) - Len(LastChars(cur, ov)) ELSE start + Len(cur)

\* start_char after the chunk cur was closed on `sentence`
SeedStart(start, cur, sentence, ov) ==
    IF Len(cur) > ov
    THEN start + Len(SeedChunk(cur, sentence, ov)) - Len(LastChars(cur, ov)) - Len(sentence) - 1
    ELSE start + Len(SeedChunk(cur, sentence, ov)) - Len(sentence)

\* current_chunk += " " + sentence if current_chunk else sentence
Extend(cur, sentence) == IF cur # "" THEN cur \o " " \o sentence ELSE sentence

(***************************************************************************)
(* Pages and parameters chunk_text is run on.                              *)
(***************************************************************************)
MaxSentences == 3

SentenceSet == {"Ab.", "Cdefgh!"}

\* s1 + sep + s2 + sep + ...
RECURSIVE JoinWith(_, _)
JoinWith(ss, sep) ==
    IF Len(ss) = 0 THEN ""
    ELSE IF Len(ss) = 1 THEN ss[1]
    ELSE ss[1] \o sep \o JoinWith(Tail(ss), sep)

BlankTexts == {"", " \n"}

ChunkTexts ==
    BlankTexts
    \cup {JoinWith(ss, " ") : ss \in UNION {[1..n -> SentenceSet] : n \in 1..MaxSentences}}
    \cup {"Ab.  Cd?\nEf. ", " Lead. x", "no end"}

\* pages_data for the texts ts: page_num counts from 1
PagesOf(ts) == [n \in 1..Len(ts) |-> [page_num |-> n, text |-> ts[n]]]

ChunkDocs ==
    {PagesOf(<<a>>) : a \in ChunkTexts}
    \cup {PagesOf(<<a, b>>) : a \in ChunkTexts, b \in {"", "Ab. Cdefgh!"}}
    \cup {PagesOf(<<"Ab. Cdefgh! Ab.", " \n", "Cdefgh! Ab.">>)}

ChunkSizes == {5, 9}
Overlaps == {0, 2, 6}

(***************************************************************************)
(* chunk_text as a state machine: one step per page begun, per sentence    *)
(* and per page ended.                                                     *)
(***************************************************************************)
parserVars == <<issueVars, issues, summaryVars, annotVars>>

ChunkStart ==
    /\ pages_data \in ChunkDocs
    /\ chunk_size \in ChunkSizes
    /\ overlap \in Overlaps
    /\ chunks = <<>> /\ placed = <<>>
    /\ chunk_id = 0
    /\ page_idx = 0
    /\ sentences = <<>> /\ sent_idx = 0
    /\ current_chunk = "" /\ cur_placed = <<>>
    /\ start_char = 0
    /\ pc = "page"

\* `for page_data in pages_data` up to the sentence loop; a blank page is skipped
BeginPage ==
    /\ pc = "page"
    /\ page_idx < Len(pages_data)
    /\ IF Strip(pages_data[page_idx + 1].text) = ""
       THEN /\ page_idx' = page_idx + 1
            /\ UNCHANGED <<pc, sentences, sent_idx, current_chunk, cur_placed, start_char>>
       ELSE /\ sentences' = SplitSentences(pages_data[page_idx + 1].text)
            /\ sent_idx' = 0
            /\ current_chunk' = "" /\ cur_placed' = <<>>
            /\ start_char' = 0
            /\ pc' = "sentence"
            /\ UNCHANGED page_idx
    /\ UNCHANGED <<parserVars, appVars, storeVars, pages_data, chunk_size, overlap, chunks, chunk_id, placed>>

\* one iteration of `for sentence in sentences`
AddSentence ==
    /\ pc = "sentence"
    /\ sent_idx < Len(sentences)
    /\ LET sentence == sentences[sent_idx + 1] IN
       IF ClosesChunk(current_chunk, sentence, chunk_size)
       THEN /\ chunks' = Append(chunks, MakeChunk(current_chunk, chunk_id,
                                                  pages_data[page_idx + 1].page_num, start_char))
            /\ placed' = Append(placed, cur_placed)
            /\ chunk_id' = ClosedChunkId(chunk_id)
            /\ current_chunk' = SeedChunk(current_chunk, sentence, overlap)
            /\ start_char' = SeedStart(start_char, current_chunk, sentence, overlap)
            /\ cur_placed' = <<sentence>>
       ELSE /\ current_chunk' = Extend(current_chunk, sentence)
            /\ cur_placed' = Append(cur_placed, sentence)
            /\ UNCHANGED <<chunks, placed, chunk_id, start_char>>
    /\ sent_idx' = sent_idx + 1
    /\ UNCHANGED <<pc, parserVars, appVars, storeVars, pages_data, chunk_size, overlap, page_idx, sentences>>

\* "Add remaining text as final chunk for this page"
EndPage ==
    /\ pc = "sentence"
    /\ sent_idx = Len(sentences)
    /\ IF Strip(current_chunk) # ""
       THEN /\ chunks' = Append(chunks, MakeChunk(current_chunk, chunk_id,
                                                  pages_data[page_idx + 1].page_num, start_char))
            /\ placed' = Append(placed, cur_placed)
            /\ chunk_id' = chunk_id + 1
       ELSE UNCHANGED <<chunks, placed, chunk_id>>
    /\ page_idx' = page_idx + 1
    /\ pc' = "page"
    /\ UNCHANGED <<parserVars, appVars, storeVars, pages_data, chunk_size, overlap, sentences, sent_idx,
                   current_chunk, cur_placed, start_char>>

\* return chunks
ChunkReturn ==
    /\ pc = "page"
    /\ page_idx = Len(pages_data)
    /\ pc' = "done"
    /\ UNCHANGED <<parserVars, appVars, storeVars, chunkVars>>

NextChunk == BeginPage \/ AddSentence \/ EndPage \/ ChunkReturn

(***************************************************************************)
(* The application (app.py): a document is uploaded, processed by          *)
(* process_pdf and reviewed by generate_review.  A document is a record of *)
(* what validate_pdf looks at: its name, its size in bytes, whether        *)
(* fitz.open can parse it, and its page count.                             *)
(***************************************************************************)
SizeCeilingMB == 10
PageCeiling == 50
RateLimitSeconds == 5
TopK == 5

\* validate_pdf with `>=` in the page test
ValidatePdfRejectsCeiling(pdf_bytes) ==
    IF pdf_bytes.size > SizeCeilingMB * 1024 * 1024
    THEN [is_valid |-> FALSE, error |-> "too_large"]
    ELSE IF ~pdf_bytes.parseable
    THEN [is_valid |-> FALSE, error |-> "invalid"]
    ELSE IF pdf_bytes.page_count >= PageCeiling
    THEN [is_valid |-> FALSE, error |-> "too_many_pages"]
    ELSE IF pdf_bytes.page_count = 0
    THEN [is_valid |-> FALSE, error |-> "empty"]
    ELSE [is_valid |-> TRUE, error |-> ""]

\* validate_pdf: the size test, then fitz.open, then the two page tests
ValidatePdf(pdf_bytes) ==
    IF pdf_bytes.size > SizeCeilingMB * 1024 * 1024
    THEN [is_valid |-> FALSE, error |-> "too_large"]
    ELSE IF ~pdf_bytes.parseable
    THEN [is_valid |-> FALSE, error |-> "invalid"]
    ELSE IF pdf_bytes.page_count > PageCeiling
    THEN [is_valid |-> FALSE, error |-> "too_many_pages"]
    ELSE IF pdf_bytes.page_count = 0
    THEN [is_valid |-> FALSE, error |-> "empty"]
    ELSE [is_valid |-> TRUE, error |-> ""]

\* the documents a user uploads: two of them carry the same file name
MaxClock == 10
PdfFile(name, size, parseable, page_count) ==
    [name |-> name, size |-> size, parseable |-> parseable, page_count |-> page_count]
\* None where a document, or what was made of one, is expected
NoFile == PdfFile("", 0, FALSE, 0)
\* an annotated PDF: the bytes create_annotated_pdf drew on and the critique whose
\* findings it drew; None is NoAnnotated
AnnotatedPdf(bytes, critique) == [bytes |-> bytes, critique |-> critique]
NoAnnotated == AnnotatedPdf(NoFile, "")
Thesis == PdfFile("thesis.pdf", 1024 * 1024, TRUE, 12)
ThesisOversized == PdfFile("thesis.pdf", SizeCeilingMB * 1024 * 1024 + 1, TRUE, 12)
AtCeilings == PdfFile("limit.pdf", SizeCeilingMB * 1024 * 1024, TRUE, PageCeiling)
TooLong == PdfFile("long.pdf", 1024 * 1024, TRUE, PageCeiling + 1)
NoPages == PdfFile("empty.pdf", 1024, TRUE, 0)
Corrupted == PdfFile("broken.pdf", 1024, FALSE, 0)
OversizedCorrupted == PdfFile("huge.pdf", SizeCeilingMB * 1024 * 1024 + 1, FALSE, 0)
Files == {Thesis, ThesisOversized, AtCeilings, TooLong, NoPages, Corrupted, OversizedCorrupted}

\* the fragment streams a completion delivers
MaxFragments == 2
FragmentSet == {"Good. ", "Weak."}
Streams == UNION {[1..n -> FragmentSet] : n \in 0..MaxFragments}

\* the except clause of the completion stores the partial text
CritiqueAfterFailureStoresPartial(stored, partial) == partial
\* the except clause of the completion returns: what was stored stays
CritiqueAfterFailure(stored, partial) == stored

\* `full_critique += chunk` keeping the new fragment only
AccumulateKeepsLast(full, fragment) == fragment
\* full_critique += chunk
Accumulate(full, fragment) == full \o fragment

\* the variables of the other functions, which the application's steps leave alone
appFrame ==
    <<lines, quotes, i, current_type, current_severity, issues, summaryVars, annotVars,
      chunkVars, storeVars>>

\* the state of the completion under way
llmVars == <<stream, frag_idx, full_critique>>

\* a run of the script starts: what the run before it displayed is gone
NewRun == steps_run' = <<>> /\ result' = "" /\ error_msg' = ""

\* generate_review returns: its local variables are gone
ReviewReturns ==
    relevant_chunks' = 0 /\ stream' = <<>> /\ frag_idx' = 0 /\ full_critique' = ""

\* the sidebar with a file in the widget: a file of another name resets the
\* processing state, and the file's bytes are stored
StoreUpload(f) ==
    /\ IF uploaded_file_name # f.name
       THEN /\ pdf_processed' = FALSE
            /\ critique_generated' = FALSE
            /\ annotated_pdf' = NoAnnotated
       ELSE UNCHANGED <<pdf_processed, critique_generated, annotated_pdf>>
    /\ original_pdf_bytes' = f

\* the user puts a file into the upload widget, and the script runs
UploadFile ==
    /\ pc = "idle"
    /\ \E f \in Files :
          /\ f # uploaded_file
          /\ uploaded_file' = f
          /\ StoreUpload(f)
    /\ NewRun
    /\ UNCHANGED <<pc, critique_text, uploaded_file_name, pdf_data, session_chunks,
                   collection, last_request_time, now, relevant_chunks, validated,
                   last_llm_call, llmVars, appFrame>>

\* the "Process PDF" button, shown while the file is not processed
ClickProcess ==
    /\ pc = "idle"
    /\ uploaded_file # NoFile
    /\ ~pdf_processed
    /\ pc' = "validate"
    /\ NewRun
    /\ UNCHANGED <<critique_text, uploaded_file, original_pdf_bytes, uploaded_file_name,
                   pdf_processed, pdf_data, session_chunks, collection, critique_generated,
                   annotated_pdf, last_request_time, now, relevant_chunks, validated,
                   last_llm_call, llmVars, appFrame>>

\* the "Process New File" button, shown once the file is processed
ClickProcessNew ==
    /\ pc = "idle"
    /\ uploaded_file # NoFile
    /\ pdf_processed
    /\ pdf_processed' = FALSE
    /\ NewRun
    /\ UNCHANGED <<pc, critique_text, uploaded_file, original_pdf_bytes, uploaded_file_name,
                   pdf_data, session_chunks, collection, critique_generated, annotated_pdf,
                   last_request_time, now, relevant_chunks, validated, last_llm_call,
                   llmVars, appFrame>>

\* process_pdf: validate_pdf, and the return on an invalid document
Validate ==
    /\ pc = "validate"
    /\ steps_run' = Append(steps_run, "validate")
    /\ LET v == ValidatePdf(uploaded_file) IN
       IF ~v.is_valid
       THEN /\ error_msg' = v.error
            /\ result' = "False"
            /\ pc' = "idle"
            /\ UNCHANGED validated
       ELSE /\ validated' = validated \cup {uploaded_file}
            /\ pc' = "extract"
            /\ UNCHANGED <<error_msg, result>>
    /\ UNCHANGED <<critique_text, uploaded_file, original_pdf_bytes, uploaded_file_name,
                   pdf_processed, pdf_data, session_chunks, collection, critique_generated,
                   annotated_pdf, last_request_time, now, relevant_chunks, last_llm_call,
                   llmVars, appFrame>>

\* process_pdf: extract_text_with_metadata
Extract ==
    /\ pc = "extract"
    /\ steps_run' = Append(steps_run, "extract")
    /\ pdf_data' = uploaded_file
    /\ pc' = "chunk"
    /\ UNCHANGED <<critique_text, uploaded_file, original_pdf_bytes, uploaded_file_name,
                   pdf_processed, session_chunks, collection, critique_generated,
                   annotated_pdf, last_request_time, now, relevant_chunks, result, error_msg,
                   validated, last_llm_call, llmVars, appFrame>>

\* process_pdf: chunk_text
Chunk ==
    /\ pc = "chunk"
    /\ steps_run' = Append(steps_run, "chunk")
    /\ session_chunks' = pdf_data
    /\ pc' = "embed"
    /\ UNCHANGED <<critique_text, uploaded_file, original_pdf_bytes, uploaded_file_name,
                   pdf_processed, pdf_data, collection, critique_generated, annotated_pdf,
                   last_request_time, now, relevant_chunks, result, error_msg, validated,
                   last_llm_call, llmVars, appFrame>>

\* process_pdf: load_embedding_model and generate_embeddings, which may raise
Embed ==
    /\ pc = "embed"
    /\ steps_run' = Append(steps_run, "embed")
    /\ \E raises \in BOOLEAN :
          IF raises
          THEN result' = "False" /\ pc' = "idle"
          ELSE pc' = "store" /\ UNCHANGED result
    /\ UNCHANGED <<critique_text, uploaded_file, original_pdf_bytes, uploaded_file_name,
                   pdf_processed, pdf_data, session_chunks, collection, critique_generated,
                   annotated_pdf, last_request_time, now, relevant_chunks, error_msg,
                   validated, last_llm_call, llmVars, appFrame>>

\* process_pdf: create_vector_store, which may raise, and the return of True
Store ==
    /\ pc = "store"
    /\ steps_run' = Append(steps_run, "store")
    /\ \E raises \in BOOLEAN :
          IF raises
          THEN /\ result' = "False"
               /\ UNCHANGED <<collection, pdf_processed, uploaded_file_name>>
          ELSE /\ collection' = session_chunks
               /\ pdf_processed' = TRUE
               /\ uploaded_file_name' = uploaded_file.name
               /\ result' = "True"
    /\ pc' = "idle"
    /\ UNCHANGED <<critique_text, uploaded_file, original_pdf_bytes, pdf_data,
                   session_chunks, critique_generated, annotated_pdf, last_request_time, now,
                   relevant_chunks, error_msg, validated, last_llm_call, llmVars, appFrame>>

\* the "Generate Review" button, shown while pdf_processed holds
ClickGenerate ==
    /\ pc = "idle"
    /\ pdf_processed
    /\ last_request_time + RateLimitSeconds <= MaxClock
    /\ pc' = "rate_limit"
    /\ NewRun
    /\ UNCHANGED <<critique_text, uploaded_file, original_pdf_bytes, uploaded_file_name,
                   pdf_processed, pdf_data, session_chunks, collection, critique_generated,
                   annotated_pdf, last_request_time, now, relevant_chunks, validated,
                   last_llm_call, llmVars, appFrame>>

\* generate_review: "Rate limiting check", which sleeps out the remainder
RateLimit ==
    /\ pc = "rate_limit"
    /\ LET time_since_last == now - last_request_time IN
       now' = IF time_since_last < RateLimitSeconds
              THEN now + (RateLimitSeconds - time_since_last)
              ELSE now
    /\ pc' = "retrieve"
    /\ UNCHANGED <<critique_text, uploaded_file, original_pdf_bytes, uploaded_file_name,
                   pdf_processed, pdf_data, session_chunks, collection, critique_generated,
                   annotated_pdf, last_request_time, relevant_chunks, steps_run, result,
                   error_msg, validated, last_llm_call, llmVars, appFrame>>

\* generate_review: retrieve_relevant_chunks, which may raise, and the return
\* when it found nothing
Retrieve ==
    /\ pc = "retrieve"
    /\ \E raises \in BOOLEAN, found \in {0, 1, TopK} :
          IF raises \/ found = 0
          THEN pc' = "idle" /\ ReviewReturns
          ELSE /\ relevant_chunks' = found
               /\ pc' = "generate"
               /\ UNCHANGED llmVars
    /\ UNCHANGED <<critique_text, uploaded_file, original_pdf_bytes, uploaded_file_name,
                   pdf_processed, pdf_data, session_chunks, collection, critique_generated,
                   annotated_pdf, last_request_time, now, steps_run, result, error_msg,
                   validated, last_llm_call, appFrame>>

\* generate_review: build_prompt and get_groq_client, which may raise, and then
\* generate_critique sends the completion request
CallLLM ==
    /\ pc = "generate"
    /\ \E raises \in BOOLEAN :
          IF raises
          THEN pc' = "idle" /\ ReviewReturns /\ UNCHANGED last_llm_call
          ELSE /\ pc' = "streaming" /\ last_llm_call' = now
               /\ stream' \in Streams
               /\ frag_idx' = 0
               /\ full_critique' = ""
               /\ UNCHANGED relevant_chunks
    /\ UNCHANGED <<critique_text, uploaded_file, original_pdf_bytes, uploaded_file_name,
                   pdf_processed, pdf_data, session_chunks, collection, critique_generated,
                   annotated_pdf, last_request_time, now, steps_run, result, error_msg,
                   validated, appFrame>>

\* generate_review: one turn of `for chunk in stream`; the completion may raise
\* instead of delivering the fragment, or before the first one, and the except
\* clause returns
ConsumeFragment ==
    /\ pc = "streaming"
    /\ \E raises \in BOOLEAN :
          IF raises
          THEN /\ pc' = "idle"
               /\ critique_text' = CritiqueAfterFailure(critique_text, full_critique)
               /\ ReviewReturns
          ELSE /\ frag_idx < Len(stream)
               /\ full_critique' = Accumulate(full_critique, stream[frag_idx + 1])
               /\ frag_idx' = frag_idx + 1
               /\ UNCHANGED <<pc, critique_text, relevant_chunks, stream>>
    /\ UNCHANGED <<uploaded_file, original_pdf_bytes, uploaded_file_name, pdf_processed,
                   pdf_data, session_chunks, collection, critique_generated, annotated_pdf,
                   last_request_time, now, steps_run, result, error_msg, validated,
                   last_llm_call, appFrame>>

\* generate_review: the stream has ended and the critique is stored
FinishLLM ==
    /\ pc = "streaming"
    /\ frag_idx = Len(stream)
    /\ critique_text' = full_critique
    /\ critique_generated' = TRUE
    /\ last_request_time' = now
    /\ pc' = "annotate"
    /\ UNCHANGED <<uploaded_file, original_pdf_bytes, uploaded_file_name, pdf_processed,
                   pdf_data, session_chunks, collection, annotated_pdf, now, relevant_chunks,
                   steps_run, result, error_msg, validated, last_llm_call, llmVars, appFrame>>

\* generate_review: the critique is parsed; when it holds a finding (an empty
\* critique holds none) the stored bytes are annotated, unless a parser or
\* create_annotated_pdf raises
Annotate ==
    /\ pc = "annotate"
    /\ \E findings \in {FALSE, critique_text # ""}, raises \in BOOLEAN :
          annotated_pdf' = IF findings /\ ~raises
                           THEN AnnotatedPdf(original_pdf_bytes, critique_text)
                           ELSE annotated_pdf
    /\ pc' = "idle"
    /\ ReviewReturns
    /\ UNCHANGED <<critique_text, uploaded_file, original_pdf_bytes, uploaded_file_name,
                   pdf_processed, pdf_data, session_chunks, collection, critique_generated,
                   last_request_time, now, steps_run, result, error_msg, validated,
                   last_llm_call, appFrame>>

\* a second passes, between two runs of the script or while the LLM answers
Tick ==
    /\ pc \in {"idle", "streaming"}
    /\ now < MaxClock
    /\ now' = now + 1
    /\ UNCHANGED <<pc, critique_text, uploaded_file, original_pdf_bytes, uploaded_file_name,
                   pdf_processed, pdf_data, session_chunks, collection, critique_generated,
                   annotated_pdf, last_request_time, relevant_chunks, steps_run, result,
                   error_msg, validated, last_llm_call, llmVars, appFrame>>

NextApp ==
    \/ UploadFile \/ ClickProcess \/ ClickProcessNew
    \/ Validate \/ Extract \/ Chunk \/ Embed \/ Store
    \/ ClickGenerate \/ RateLimit \/ Retrieve \/ CallLLM \/ ConsumeFragment \/ FinishLLM
    \/ Annotate
    \/ Tick

(***************************************************************************)
(* The vector store (embeddings.py) with several sessions in one process.  *)
(* chromadb.Client() gives every caller the one in-memory store of the     *)
(* process, which is why create_vector_store deletes 'thesis_chunks'       *)
(* before creating it.  A session processes its own document, named by the *)
(* session, and holds the collection object create_vector_store returned,  *)
(* here the id the client gave the collection.  A collection's documents   *)
(* are the set of sessions whose chunks were added to it.                  *)
(***************************************************************************)
MaxSessions == 2
MaxBuilds == 3
Sessions == 1..MaxSessions
CollectionName == "thesis_chunks"

\* the client has no collection of that name
NoCollection == [id |-> 0, documents |-> {}]

\* the library resolves a held collection by the id it was created with or,
\* in builds before that, by its name; a collection that is gone raises
LookupModes == {"by_id", "by_name"}
Resolve(mode, id, stored) ==
    IF stored = NoCollection THEN "raises"
    ELSE IF mode = "by_id" /\ stored.id # id THEN "raises"
    ELSE IF stored.documents = {} THEN "empty"
    ELSE "chunks"

\* what the steps of the vector store leave alone
storeFrame == <<pc, parserVars, chunkVars, appVars>>

\* create_vector_store: client.delete_collection(collection_name), whose
\* exception for a missing collection is swallowed
DeleteCollection(s) ==
    /\ store_pc[s] = "idle"
    /\ next_uuid < MaxBuilds
    /\ client_collections' = NoCollection
    /\ store_pc' = [store_pc EXCEPT ![s] = "create"]
    /\ UNCHANGED <<next_uuid, created, held, retrieved, storeFrame>>

\* create_vector_store: client.create_collection, which raises when another
\* session has created the collection in between; process_pdf then returns False
CreateCollection(s) ==
    /\ store_pc[s] = "create"
    /\ IF client_collections # NoCollection
       THEN /\ store_pc' = [store_pc EXCEPT ![s] = "idle"]
            /\ UNCHANGED <<client_collections, next_uuid, created>>
       ELSE /\ next_uuid' = next_uuid + 1
            /\ client_collections' = [id |-> next_uuid', documents |-> {}]
            /\ created' = [created EXCEPT ![s] = next_uuid']
            /\ store_pc' = [store_pc EXCEPT ![s] = "add"]
    /\ UNCHANGED <<held, retrieved, storeFrame>>

\* create_vector_store: collection.add on the collection just created, the
\* return, and process_pdf storing the collection in the session
AddChunks(s) ==
    /\ store_pc[s] = "add"
    /\ \E mode \in LookupModes :
          IF Resolve(mode, created[s], client_collections) = "raises"
          THEN UNCHANGED <<client_collections, held>>
          ELSE /\ client_collections' = [client_collections EXCEPT !.documents = @ \cup {s}]
               /\ held' = [held EXCEPT ![s] = created[s]]
    /\ store_pc' = [store_pc EXCEPT ![s] = "idle"]
    /\ created' = [created EXCEPT ![s] = 0]
    /\ UNCHANGED <<next_uuid, retrieved, storeFrame>>

\* retrieve_relevant_chunks on the collection the session holds: the documents
\* returned are named by the session whose document they are chunks of
QueryCollection(s) ==
    /\ store_pc[s] = "idle"
    /\ held[s] # None
    /\ \E mode \in LookupModes :
          LET outcome == Resolve(mode, held[s], client_collections) IN
          retrieved' = [retrieved EXCEPT ![s] =
                           IF outcome = "chunks"
                           THEN [outcome |-> outcome, of |-> client_collections.documents]
                           ELSE [outcome |-> outcome, of |-> {}]]
    /\ UNCHANGED <<client_collections, next_uuid, store_pc, created, held, storeFrame>>

NextStore ==
    \/ \E s \in Sessions : DeleteCollection(s)
    \/ \E s \in Sessions : CreateCollection(s)
    \/ \E s \in Sessions : AddChunks(s)
    \/ \E s \in Sessions : QueryCollection(s)

(***************************************************************************)
(* The specifications: one function runs, the state of the others is idle. *)
(***************************************************************************)
IssuesIdle ==
    /\ lines = <<>> /\ quotes = <<>> /\ i = 0
    /\ current_type = "general" /\ current_severity = "major"

SummariesIdle == section = 0 /\ summaries = <<>>

AnnotateIdle ==
    /\ doc = <<>> /\ section_summaries = <<>> /\ rewrites = <<>>
    /\ include_legend = FALSE /\ highlighted_texts = {} /\ comment_counter = 1
    /\ annots = <<>> /\ idx = 0 /\ sidx = 0 /\ ridx = 0
    /\ fault = NoFault

ChunkIdle ==
    /\ pages_data = <<>> /\ chunk_size = 500 /\ overlap = 100
    /\ chunks = <<>> /\ placed = <<>> /\ chunk_id = 0 /\ page_idx = 0
    /\ sentences = <<>> /\ sent_idx = 0
    /\ current_chunk = "" /\ cur_placed = <<>> /\ start_char = 0

\* initialize_session_state, with no file in the upload widget
AppIdle ==
    /\ uploaded_file = NoFile /\ original_pdf_bytes = NoFile /\ uploaded_file_name = NoFile.name
    /\ pdf_processed = FALSE /\ pdf_data = NoFile /\ session_chunks = NoFile
    /\ collection = NoFile /\ critique_generated = FALSE /\ annotated_pdf = NoAnnotated
    /\ last_request_time = 0 /\ now = RateLimitSeconds /\ relevant_chunks = 0
    /\ steps_run = <<>> /\ result = "" /\ error_msg = ""
    /\ validated = {} /\ last_llm_call = None
    /\ stream = <<>> /\ frag_idx = 0 /\ full_critique = ""

\* no session has built an index
StoreIdle ==
    /\ client_collections = NoCollection
    /\ next_uuid = 0
    /\ store_pc = [s \in Sessions |-> "idle"]
    /\ created = [s \in Sessions |-> 0]
    /\ held = [s \in Sessions |-> None]
    /\ retrieved = [s \in Sessions |-> [outcome |-> "none", of |-> {}]]

\* the functions modelled after the parsers and the annotator are not running
RestIdle == ChunkIdle /\ AppIdle /\ StoreIdle

InitIssues == IssuesStart /\ SummariesIdle /\ AnnotateIdle /\ RestIdle
SpecIssues == InitIssues /\ [][NextIssues]_vars

InitSummaries == SummariesStart /\ IssuesIdle /\ issues = <<>> /\ AnnotateIdle /\ RestIdle
SpecSummaries == InitSummaries /\ [][NextSummaries]_vars

InitAnnotate == AnnotateStart /\ critique_text = "" /\ IssuesIdle /\ SummariesIdle /\ RestIdle
SpecAnnotate == InitAnnotate /\ [][NextAnnotate]_vars

InitAnnotateFaults ==
    AnnotateFaultStart /\ critique_text = "" /\ IssuesIdle /\ SummariesIdle /\ RestIdle
SpecAnnotateFaults == InitAnnotateFaults /\ [][NextAnnotate]_vars

ParsersIdle ==
    /\ critique_text = "" /\ IssuesIdle /\ issues = <<>> /\ SummariesIdle /\ AnnotateIdle

InitChunk == ChunkStart /\ ParsersIdle /\ AppIdle /\ StoreIdle
SpecChunk == InitChunk /\ [][NextChunk]_vars

InitApp == pc = "idle" /\ AppIdle /\ ParsersIdle /\ ChunkIdle /\ StoreIdle
SpecApp == InitApp /\ [][NextApp]_vars

InitStore == pc = "idle" /\ StoreIdle /\ ParsersIdle /\ ChunkIdle /\ AppIdle
SpecStore == InitStore /\ [][NextStore]_vars

(***************************************************************************)
(* Claims about parse_critique_for_issues, checked under SpecIssues.       *)
(***************************************************************************)
\* the loop is at line i + 1 and this step appends an issue for it
EmitsIssue == pc = "scan" /\ i < Len(lines) /\ Len(issues') = Len(issues) + 1

\* the issue appended by this step
EmittedIssue == issues'[Len(issues')]

\* line k is an anchor line: it holds a double-quoted span of 20 to 200 characters
IsAnchor(line) == LineQuote(line) # <<>>

\* the critique has the layout of the template's "## MAJOR Issues" block: the
\* heading, an anchor line with "(Page 1)" and no keyword, a Problem line and
\* a Suggestion line
MajorBlockShape ==
    /\ Len(lines) = 4
    /\ lines[1] = "## MAJOR Issues"
    /\ IsAnchor(lines[2])
    /\ Len(CharPositions(lines[2], "\"")) = 2
    /\ Contains(lines[2], "(Page 1)")
    /\ \A w \in Keywords : ~Contains(Lower(lines[2]), w)
    /\ StartsWith(Strip(lines[3]), "Problem:")
    /\ StartsWith(Strip(lines[4]), "Suggestion:")

\* C1: a critique "## MAJOR Issues" / anchor line with (Page 1) / Problem: /
\* Suggestion: yields exactly one issue, with severity 'major', the quoted
\* sentence as text_snippet and page_hint 1.
C1_MajorBlockYieldsMajorIssue ==
    (pc = "done" /\ MajorBlockShape) =>
        /\ Len(issues) = 1
        /\ issues[1].severity = "major"
        /\ issues[1].text_snippet = SearchQuote(lines[2])[1]
        /\ issues[1].page_hint = 1

\* C2 as stated: an issue emitted from an anchor line containing 'methodology'
\* has severity 'critical' or 'major', never 'minor', 'suggestion' or 'strength'.
C2_MethodologyAtLeastMajor ==
    [][(EmitsIssue /\ Has(LineLower(lines[i + 1]), "methodology"))
         => EmittedIssue.severity \in {"critical", "major"}]_vars

\* C2 amended: an issue emitted from an anchor line containing 'methodology'
\* has severity 'critical', 'major' or 'strength', never 'minor' or
\* 'suggestion'; it is 'strength' only when the severity carried into the line
\* is 'strength' or the line holds a strength keyword.
C2_MethodologyFloorExceptStrength ==
    [][(EmitsIssue /\ Has(LineLower(lines[i + 1]), "methodology"))
         => /\ EmittedIssue.severity \in {"critical", "major", "strength"}
            /\ EmittedIssue.severity = "strength"
                 => \/ current_severity = "strength"
                    \/ HasAny(LineLower(lines[i + 1]), StrengthWords)]_vars

\* C2 witness: the severity carried into a methodology anchor line was 'minor'
\* and the issue emitted from it is 'major'.
C2_Witness ==
    /\ Len(lines) = 3 /\ i = 2
    /\ lines[1] = SmallPoints /\ Has(LineLower(lines[2]), "methodology")
    /\ Len(issues) = 1
    /\ issues[1].type = "methodology" /\ issues[1].severity = "major"

\* C3: an issue emitted from an anchor line containing 'critical' or 'fatal'
\* (case-insensitive) has severity 'critical', whatever category keywords the
\* line also contains.
C3_CriticalLineIsCritical ==
    [][(EmitsIssue /\ (\/ Has(LineLower(lines[i + 1]), "critical")
                       \/ Has(LineLower(lines[i + 1]), "fatal")))
         => EmittedIssue.severity = "critical"]_vars

\* C3 witness: an anchor line with 'CRITICAL' and the category keyword
\* 'grammar' has produced a critical grammar issue.
C3_Witness ==
    /\ i >= 1 /\ Len(issues) >= 1
    /\ Contains(lines[1], "CRITICAL") /\ Contains(lines[1], "grammar")
    /\ issues[1].type = "grammar" /\ issues[1].severity = "critical"

\* C4: every issue with type 'logic' has severity 'critical' or 'major'.
C4_LogicAtLeastMajor ==
    \A k \in 1..Len(issues) :
        issues[k].type = "logic" => issues[k].severity \in {"critical", "major"}

\* C5: when the line scan has ended, its issues are as many as the anchor
\* lines of the critique, the last line included.
C5_OneIssuePerAnchorLine ==
    (pc = "scan" /\ i = Len(lines)) =>
        Len(issues) = Cardinality({k \in 1..Len(lines) : IsAnchor(lines[k])})

\* C6: if the line scan produced no issue and the text holds n >= 1 quoted
\* spans, the result is min(5, n) issues, one per span in text order, each
\* 'general', 'major' and without page_hint; if the scan produced an issue,
\* the result is the scan's issues.
C6_FallbackFromQuotes ==
    [][(pc = "scan" /\ pc' = "done") =>
         LET spans == quotes IN
         IF Len(issues) = 0 /\ Len(spans) >= 1
         THEN /\ Len(issues') = (IF Len(spans) < 5 THEN Len(spans) ELSE 5)
              /\ \A k \in 1..Len(issues') :
                    /\ issues'[k].type = "general"
                    /\ issues'[k].severity = "major"
                    /\ issues'[k].page_hint = None
                    /\ issues'[k].text_snippet = Prefix(spans[k], SnippetMax)
         ELSE issues' = issues]_vars

\* C6 witness: a critique with six quoted spans whose scan found nothing has
\* returned five fallback issues.
C6_Witness ==
    /\ pc = "done"
    /\ Len(quotes) = 6
    /\ Len(issues) = 5
    /\ \A k \in 1..5 : issues[k].type = "general" /\ issues[k].text_snippet = quotes[k]

(***************************************************************************)
(* Claims about parse_section_summaries, checked under SpecSummaries.      *)
(***************************************************************************)
\* the section block summaries[k] was made from
BlockOf(k) == SearchSection(critique_text, Lower(summaries[k].section))[1]

\* how often the word of the score pattern occurs in a block
ScoreMentions(content) ==
    Len(SelectSeq(CharPositions(Lower(content), "s"),
                  LAMBDA h : LookingAt(Lower(content), h, "score")))

\* C7: every section summary has an integer score in [1,10]: a parsed score
\* above 10 becomes 10, a parsed score of 0 becomes 1, a missing score becomes
\* 7 (and a parsed score within the bounds is kept).
C7_ScoreInRange ==
    \A k \in 1..Len(summaries) :
        \E parsed \in {SearchScore(BlockOf(k))} :
            /\ summaries[k].score \in ScoreLow..ScoreHigh
            /\ parsed = None => summaries[k].score = 7
            /\ parsed > 10 => summaries[k].score = 10
            /\ parsed = 0 => summaries[k].score = 1
            /\ parsed \in 1..10 => summaries[k].score = parsed

\* C7 witness: a text whose first block scores itself 11/10 and whose second
\* block scores itself 0 has returned summaries with scores 10 and 1.
C7_Witness ==
    /\ pc = "done"
    /\ Len(summaries) = 2
    /\ SearchScore(BlockOf(1)) = 11 /\ summaries[1].score = 10
    /\ SearchScore(BlockOf(2)) = 0 /\ summaries[2].score = 1

\* C8 as stated: a section block containing 'Score: -5' yields a summary with
\* score 1, and one containing 'Score: 99/10' yields a summary with score 10.
C8_NegativeScoreClampsToOne ==
    \A k \in 1..Len(summaries) :
        /\ Contains(BlockOf(k), "Score: -5") => summaries[k].score = 1
        /\ Contains(BlockOf(k), "Score: 99/10") => summaries[k].score = 10

\* C8 amended: a section block whose only score text is 'Score: -5' yields a
\* summary with the default score 7 (the pattern takes digits only, so the
\* signed number is not parsed and nothing is clamped); one whose only score
\* text is 'Score: 99/10' yields a summary with score 10.
C8_NegativeScoreKeepsDefault ==
    \A k \in 1..Len(summaries) :
        ScoreMentions(BlockOf(k)) = 1 =>
            /\ Contains(BlockOf(k), "Score: -5") => summaries[k].score = DefaultScore
            /\ Contains(BlockOf(k), "Score: 99/10") => summaries[k].score = ScoreHigh

\* C8 witness: a block scoring itself -5 has returned a summary with score 7.
C8_Witness ==
    /\ pc = "done"
    /\ Len(summaries) >= 1
    /\ Contains(BlockOf(1), "Score: -5")
    /\ ScoreMentions(BlockOf(1)) = 1
    /\ summaries[1].score = 7

(***************************************************************************)
(* Claims about create_annotated_pdf, checked under SpecAnnotate.          *)
(***************************************************************************)
\* the drawings of the given kinds made for issues whose text_snippet is sn
IssueDrawings(kinds, sn) ==
    {t \in 1..Len(annots) :
        annots[t].kind \in kinds /\ issues[annots[t].for].text_snippet = sn}

\* the issues handled so far whose text_snippet is sn
Handled(sn) == {j \in 1..idx : issues[j].text_snippet = sn}

\* the searched characters of issue j's snippet are on a page searched for it
InSearchRange(j) ==
    FirstMatch(doc, PagesToSearch(doc, issues[j].page_hint),
               Prefix(issues[j].text_snippet, SearchChars)) # None

\* sn is in the text of a page of the document
PresentInDocument(sn) == \E n \in 1..Len(doc) : Contains(doc[n], sn)

\* C9 as stated: after a run, two issues with an identical text_snippet that
\* is present in the document have exactly one highlight between them.
C9_DuplicateSnippetOneHighlight ==
    pc = "done" =>
        \A j, k \in 1..Len(issues) :
            (/\ j < k
             /\ issues[j].text_snippet = issues[k].text_snippet
             /\ PresentInDocument(issues[j].text_snippet))
            => Cardinality(IssueDrawings({"highlight"}, issues[j].text_snippet)) = 1

\* C9 amended: issues with an identical text_snippet have at most one
\* highlight between them, and exactly one when the first 50 characters of the
\* snippet are on a page searched for one of them (pages page_hint-2 to
\* page_hint, counted from 0, with a page_hint; the first 20 pages without);
\* the snippet is in highlighted_texts from its highlight on, and an issue
\* whose snippet is in highlighted_texts is skipped: nothing is drawn and the
\* comment counter is unchanged.
C9_DuplicateSnippetAtMostOneHighlight ==
    /\ [](\A j \in 1..idx :
            \E n \in {Cardinality(IssueDrawings({"highlight"}, issues[j].text_snippet))} :
                /\ n <= 1
                /\ n = 1 <=> \E h \in Handled(issues[j].text_snippet) : InSearchRange(h)
                /\ n = 1 <=> issues[j].text_snippet \in highlighted_texts)
    /\ [][(/\ pc = "annotate"
            /\ idx < Len(issues)
            /\ issues[idx + 1].text_snippet \in highlighted_texts)
           => /\ annots' = annots
              /\ comment_counter' = comment_counter
              /\ highlighted_texts' = highlighted_texts]_vars

\* C9 witness: a run over two issues with the same snippet has drawn one
\* highlight and used one comment number.
C9_Witness ==
    /\ pc = "done"
    /\ Len(issues) = 2
    /\ issues[1].text_snippet = issues[2].text_snippet
    /\ Cardinality(IssueDrawings({"highlight"}, issues[1].text_snippet)) = 1
    /\ issues[1].text_snippet \in highlighted_texts
    /\ comment_counter = 2

\* C10: at most one issue annotation (margin comment of a highlight, or
\* fallback sticky note) is placed per distinct text_snippet, and the comment
\* numbers used are no more than the distinct snippets handled.
C10_OneAnnotationPerSnippet ==
    /\ \A j \in 1..idx :
          Cardinality(IssueDrawings({"comment", "note"}, issues[j].text_snippet)) <= 1
    /\ comment_counter - 1 <= Cardinality({issues[j].text_snippet : j \in 1..idx})

\* this step handles issue idx + 1, and add_issue_annotation gets past its skip
\* test and finds the searched characters on none of the pages it searches
IssueNotFound ==
    /\ pc = "annotate"
    /\ idx < Len(issues)
    /\ issues[idx + 1].text_snippet \notin highlighted_texts
    /\ ~InSearchRange(idx + 1)

\* the drawings this step adds
NewDrawings == SubSeq(annots', Len(annots) + 1, Len(annots'))

C12_HintedIssueGetsNote ==
    [][(IssueNotFound /\ issues[idx + 1].page_hint # None)
         => /\ Len(NewDrawings) = 1
            /\ NewDrawings[1].kind = "note"
            /\ comment_counter' = comment_counter + 1]_vars

\* C12 amended: whenever an issue whose snippet is not yet highlighted carries
\* a page_hint from 1 to the page count and no page of its search range
\* yields a match, exactly one sticky note is placed on page page_hint - 1
\* (counted from 0) and the comment counter is incremented by one; with a
\* page_hint of 0 or beyond the page count nothing is placed and the counter
\* is unchanged.
C12_HintOnAPageGetsNote ==
    [][(IssueNotFound /\ issues[idx + 1].page_hint # None)
         => IF issues[idx + 1].page_hint \in 1..PageCount(doc)
            THEN /\ Len(NewDrawings) = 1
                 /\ NewDrawings[1].kind = "note"
                 /\ NewDrawings[1].page = issues[idx + 1].page_hint - 1
                 /\ NewDrawings[1].num = comment_counter
                 /\ comment_counter' = comment_counter + 1
            ELSE /\ annots' = annots
                 /\ comment_counter' = comment_counter]_vars

\* C12 witness: an issue with page_hint 3 that is found on none of the pages
\* searched has a sticky note on the third page, numbered 1.
C12_Witness ==
    /\ idx >= 1
    /\ issues[1].page_hint = 3
    /\ ~InSearchRange(1)
    /\ \E t \in 1..Len(annots) :
          /\ annots[t].kind = "note" /\ annots[t].for = 1
          /\ annots[t].page = 2 /\ annots[t].num = 1
    /\ comment_counter >= 2

\* this step handles rewrite ridx + 1, whose page is a page of the document on
\* which the searched characters of its original text are not found
RewriteNotFound ==
    /\ pc = "annotate"
    /\ idx = Len(issues) /\ sidx = Len(section_summaries)
    /\ ridx < Len(rewrites)
    /\ rewrites[ridx + 1].page_num # None
    /\ rewrites[ridx + 1].page_num \in 1..PageCount(doc)
    /\ ~SearchFor(doc, rewrites[ridx + 1].page_num - 1,
                  Prefix(rewrites[ridx + 1].original, SearchChars))

C14_FailuresAreSwallowed ==
    /\ pc # "raised"
    /\ pc = "done" => /\ idx = Len(issues)
                       /\ sidx = Len(section_summaries)
                       /\ ridx = Len(rewrites)

(***************************************************************************)
(* Claims about chunk_text, checked under SpecChunk.                       *)
(***************************************************************************)
\* the positions in chunks of the chunks of page n, ascending
PageChunks(n) ==
    SelectSeq([j \in 1..Len(chunks) |-> j], LAMBDA j : chunks[j].page_num = n)

\* the length of the longest sentence of a text
LongestSentence(text) ==
    CHOOSE m \in {Len(SplitSentences(text)[t]) : t \in 1..Len(SplitSentences(text))} :
        \A t \in 1..Len(SplitSentences(text)) : Len(SplitSentences(text)[t]) <= m

\* the sequences of ss one after the other
RECURSIVE Flatten(_)
Flatten(ss) == IF Len(ss) = 0 THEN <<>> ELSE Head(ss) \o Flatten(Tail(ss))

\* w is the end of s
EndsWith(s, w) == Len(w) <= Len(s) /\ SubSeq(s, Len(s) - Len(w) + 1, Len(s)) = w

\* C15: the chunks carry chunk_id 0, 1, 2, ... in output order, across page
\* boundaries and blank pages: the id of a chunk is its position less one,
\* and the next id to give is the number of chunks.
C15_ChunkIdsCountUp ==
    /\ \A j \in 1..Len(chunks) : chunks[j].chunk_id = j - 1
    /\ chunk_id = Len(chunks)

\* C15 witness: a document with a blank page between two pages of text has
\* returned chunks whose ids run on from the first page to the third.
C15_Witness ==
    /\ pc = "done"
    /\ Len(pages_data) = 3
    /\ Len(chunks) >= 3
    /\ \E j \in 1..(Len(chunks) - 1) :
          /\ chunks[j].page_num = 1 /\ chunks[j + 1].page_num = 3
          /\ chunks[j].chunk_id >= 1
          /\ chunks[j + 1].chunk_id = chunks[j].chunk_id + 1

\* C16: for any chunk_size and overlap, every chunk but the last of its page
\* has a text of 1 to chunk_size + (longest sentence of the page) characters.
C16_ChunkLengthBounded ==
    pc = "done" =>
        \A j \in 1..(Len(chunks) - 1) :
            chunks[j + 1].page_num = chunks[j].page_num =>
                /\ Len(chunks[j].text) >= 1
                /\ Len(chunks[j].text) <=
                      chunk_size + LongestSentence(pages_data[chunks[j].page_num].text)

\* C17: the chunks of a page cover its text: the sentences the chunks of the
\* page hold after their overlap prefixes are the sentences of the page, each
\* once and in order, and the overlap prefix of a chunk is no more than the
\* `overlap` characters taken from the chunk before it and the separator
\* (none in the first chunk of a page).
C17_ChunksCoverPage ==
    pc = "done" =>
        \A k \in 1..Len(pages_data) :
            \E js \in {PageChunks(pages_data[k].page_num)} :
                /\ Flatten([t \in 1..Len(js) |-> placed[js[t]]])
                      = (IF Strip(pages_data[k].text) = "" THEN <<>>
                         ELSE SplitSentences(pages_data[k].text))
                /\ \A t \in 1..Len(js) :
                      \E body \in {Strip(JoinWith(placed[js[t]], " "))} :
                          /\ EndsWith(chunks[js[t]].text, body)
                          /\ Len(chunks[js[t]].text) - Len(body)
                                <= (IF t = 1 THEN 0 ELSE overlap + 1)

(***************************************************************************)
(* Claims about validate_pdf, process_pdf and generate_review, checked     *)
(* under SpecApp.                                                          *)
(***************************************************************************)
\* what the claims call an invalid document
OverSize(f) == f.size > SizeCeilingMB * 1024 * 1024
Invalid(f) == OverSize(f) \/ ~f.parseable \/ f.page_count = 0 \/ f.page_count > PageCeiling

\* C18: validate_pdf rejects a document of more than 10 MB (by its size, parseable
\* or not), an unparseable one, one of zero pages and one of more than 50 pages,
\* and accepts every other one, the one of exactly 10 MB and 50 pages included;
\* on a rejection process_pdf returns False having run validation only, with
\* pdf_processed, pdf_data, chunks and collection as they were.
C18_InvalidDocumentStopsProcessing ==
    [][pc = "validate" =>
          IF Invalid(uploaded_file)
          THEN /\ result' = "False" /\ pc' = "idle"
               /\ steps_run' = <<"validate">>
               /\ OverSize(uploaded_file) => error_msg' = "too_large"
               /\ UNCHANGED <<pdf_processed, pdf_data, session_chunks, collection>>
          ELSE /\ pc' = "extract" /\ result' = ""
               /\ uploaded_file \in validated']_vars

\* C18 witness: the document at both ceilings was processed, and then an
\* oversized one was rejected with the index of the first still in place
C18_Witness ==
    /\ pc = "idle" /\ result = "False" /\ steps_run = <<"validate">>
    /\ error_msg = "too_large"
    /\ collection = AtCeilings /\ pdf_data = AtCeilings

\* the step that sends the completion request
LLMCalled == pc = "generate" /\ pc' = "streaming"

\* C19: the LLM is called only when the document whose bytes are stored has
\* passed validate_pdf and the retrieval of the request returned a chunk; a
\* request whose retrieval returned nothing ends with no LLM call and with
\* critique_text, critique_generated, last_request_time and annotated_pdf as
\* they were.
C19_LLMOnlyForValidatedDocument ==
    [][/\ LLMCalled => original_pdf_bytes \in validated /\ relevant_chunks >= 1
       /\ (pc = "retrieve" /\ pc' # "generate") =>
             /\ pc' = "idle"
             /\ UNCHANGED <<last_llm_call, critique_text, critique_generated,
                            last_request_time, annotated_pdf>>]_vars

\* C20: an LLM call comes at least 5 seconds after the one before it, whether
\* that one succeeded or failed; the rate limit check only lets time pass and
\* always goes on to serve the request.
C20_LLMCallsFiveSecondsApart ==
    [][/\ (LLMCalled /\ last_llm_call # None) => now - last_llm_call >= RateLimitSeconds
       /\ pc = "rate_limit" => pc' = "retrieve" /\ now' >= now]_vars

\* the fragments of a stream put together in arrival order
RECURSIVE Concatenation(_)
Concatenation(fragments) ==
    IF fragments = <<>> THEN "" ELSE Head(fragments) \o Concatenation(Tail(fragments))

\* C21: a request that ends without a whole completion, because the call raised
\* before the stream or while fragments were consumed (or because an earlier step
\* gave up), goes back to idle without parsing or annotating and leaves
\* critique_text, critique_generated, annotated_pdf and last_request_time as they
\* were: the partial text is not stored.
C21_FailedCompletionLeavesSession ==
    [][(pc \in {"rate_limit", "retrieve", "generate", "streaming"} /\ pc' # "annotate") =>
          /\ pc' \in {pc, "idle", "retrieve", "generate", "streaming"}
          /\ UNCHANGED <<critique_text, critique_generated, annotated_pdf,
                         last_request_time>>]_vars

\* C21 witness: after a review that stored a two-fragment critique and its
\* annotated PDF, a later completion was sent and failed, and both are still there
C21_Witness ==
    /\ pc = "idle" /\ last_llm_call > last_request_time
    /\ critique_generated /\ critique_text = "Good. Weak."
    /\ annotated_pdf = AnnotatedPdf(Thesis, "Good. Weak.")

\* C22: once the stream is consumed to its end, critique_text is the fragments
\* in arrival order and critique_generated is true, and the parsing and
\* annotation that follow, raising or not, change neither.
C22_CritiqueStoredBeforeAnnotation ==
    /\ [](pc = "annotate" => critique_text = Concatenation(stream) /\ critique_generated)
    /\ [][pc = "annotate" => UNCHANGED <<critique_text, critique_generated>>]_vars

\* C22 witness: a two-fragment critique is stored and the annotation that followed
\* produced nothing
C22_Witness ==
    /\ pc = "idle" /\ critique_generated /\ critique_text = "Weak.Good. "
    /\ last_request_time >= last_llm_call /\ last_llm_call # None
    /\ annotated_pdf = NoAnnotated

\* the review tab offers the annotated PDF for download next to the critique
DownloadOffered ==
    pc = "idle" /\ critique_generated /\ critique_text # "" /\ annotated_pdf # NoAnnotated

\* C27: an annotated PDF offered for download next to a critique was made from
\* that critique on the document bytes now stored.
C27_AnnotatedPdfMatchesCritique ==
    DownloadOffered => annotated_pdf = AnnotatedPdf(original_pdf_bytes, critique_text)

(***************************************************************************)
(* Further claims about create_annotated_pdf, checked under SpecAnnotate.  *)
(***************************************************************************)
\* the numbered annotations drawn so far: margin comments and fallback notes
Numbered == SelectSeq(annots, LAMBDA a : a.num # None)

\* C23: the comment counter starts at 1 and is always one more than the number
\* of issue annotations placed; the k-th of them carries the number k; the
\* counter never decreases, moves by at most one per issue, and the section
\* summaries and rewrites leave it alone.
C23_CounterNumbersAnnotations ==
    /\ [](/\ pc = "open" => comment_counter = 1
          /\ comment_counter = Len(Numbered) + 1
          /\ \A k \in 1..Len(Numbered) : Numbered[k].num = k)
    /\ [][/\ comment_counter' \in {comment_counter, comment_counter + 1}
           /\ (pc = "annotate" /\ idx = Len(issues)) => comment_counter' = comment_counter]_vars

\* C23 witness: a finished run that placed a highlight numbered 1, then a
\* fallback note numbered 2, then a section summary
C23_Witness ==
    /\ pc = "done" /\ comment_counter = 3
    /\ Len(Numbered) = 2 /\ Numbered[1].kind = "comment" /\ Numbered[2].kind = "note"
    /\ \E k \in 1..Len(annots) : annots[k].kind = "summary_box"

\* the step handles issue idx + 1 and gets past the skip of a duplicate
SearchesIssue ==
    pc = "annotate" /\ idx < Len(issues) /\ issues[idx + 1].text_snippet \notin highlighted_texts

\* the page indexes the claim has searched for a hint p: those of the pages p - 1,
\* p and p + 1 that exist, or of the first 20 pages when there is no hint
ClaimedPages(p) ==
    (IF p = None THEN 0..(SearchLimit - 1) ELSE {p - 2, p - 1, p}) \cap 0..(PageCount(doc) - 1)

\* C24: for an issue with page_hint p >= 1, or without page_hint, the highlight
\* goes to the lowest of the claimed pages that holds the searched characters,
\* and there is no highlight when none of them does.
C24_FirstSearchedPageWins ==
    [][(SearchesIssue /\ (issues[idx + 1].page_hint = None \/ issues[idx + 1].page_hint >= 1)) =>
          LET needle == Prefix(issues[idx + 1].text_snippet, SearchChars)
              hits == {q \in ClaimedPages(issues[idx + 1].page_hint) : SearchFor(doc, q, needle)}
              marks == SelectSeq(NewDrawings, LAMBDA a : a.kind = "highlight")
          IN  IF hits = {} THEN marks = <<>>
              ELSE Len(marks) = 1 /\ marks[1].page = Least(hits)]_vars

\* C24 witness: the snippet is on all three pages, the hint names the second,
\* and the highlight is on the first
C24_Witness ==
    /\ Len(doc) = 3
    /\ \E t \in 1..Len(annots) :
          /\ annots[t].kind = "highlight" /\ annots[t].page = 0
          /\ issues[annots[t].for].page_hint = 2
          /\ \A q \in 0..2 :
                SearchFor(doc, q, Prefix(issues[annots[t].for].text_snippet, SearchChars))

(***************************************************************************)
(* Further claims about parse_critique_for_issues, checked under           *)
(* SpecIssues.                                                             *)
(***************************************************************************)
\* the keyword lists in the order the claim gives, and the severity of each
SeverityLists == <<CriticalWords, MajorWords, MinorWords, SuggestionWords, StrengthWords>>
SeverityNames == <<"critical", "major", "minor", "suggestion", "strength">>

\* the severity of the first list with a keyword in the line, the severity carried
\* into the line when no list has one
ListedSeverity(line_lower, before) ==
    LET matching == {k \in 1..Len(SeverityLists) : HasAny(line_lower, SeverityLists[k])}
    IN  IF matching = {} THEN before ELSE SeverityNames[Least(matching)]

\* what the category keywords of the line make of a severity: methodology raises
\* all but critical and strength to major, grammar lowers all but critical and
\* major to minor, clarity keeps it, logic raises minor to major
CategoryAdjusted(line_lower, severity) ==
    IF \E w \in {"methodology", "research design"} : Has(line_lower, w)
    THEN (IF severity \in {"critical", "strength"} THEN severity ELSE "major")
    ELSE IF \E w \in {"grammar", "spelling", "typo"} : Has(line_lower, w)
    THEN (IF severity \in {"critical", "major"} THEN severity ELSE "minor")
    ELSE IF \E w \in {"writing", "clarity", "style"} : Has(line_lower, w)
    THEN severity
    ELSE IF \E w \in {"logic", "argument", "reasoning"} : Has(line_lower, w)
    THEN (IF severity = "minor" THEN "major" ELSE severity)
    ELSE severity

\* C25 as stated: after a line the severity state is that of the first keyword
\* list, in the order critical, major, minor, suggestion, strength, with a
\* keyword in the line, and the severity before the line when no list has one;
\* an issue emitted from the line carries it.
C25_SeverityByFirstKeywordList ==
    [][(pc = "scan" /\ i < Len(lines)) =>
          LET listed == ListedSeverity(LineLower(lines[i + 1]), current_severity)
          IN  /\ current_severity' = listed
              /\ EmitsIssue => EmittedIssue.severity = listed]_vars

\* C25 amended: after a line the severity state is that of the first keyword list
\* with a keyword in the line (the severity before the line when no list has
\* one), adjusted by the category keywords of the line; an issue emitted from
\* the line carries it, words inside the quoted snippet included.
C25_SeverityByListThenCategory ==
    [][(pc = "scan" /\ i < Len(lines)) =>
          LET line_lower == LineLower(lines[i + 1])
              adjusted == CategoryAdjusted(line_lower,
                                           ListedSeverity(line_lower, current_severity))
          IN  /\ current_severity' = adjusted
              /\ EmitsIssue => EmittedIssue.severity = adjusted]_vars

\* C25 witness: the first line is an anchor line whose only keyword, 'clear', is
\* inside its quoted snippet, and its issue is a strength
C25_Witness ==
    /\ Len(lines) >= 2 /\ lines[1] = AnchorClearQuoted
    /\ Len(issues) >= 1 /\ issues[1].severity = "strength"
    /\ Contains(issues[1].text_snippet, "clear")

\* C26: every issue with type 'strength' has severity 'strength'.
C26_StrengthTypeHasStrengthSeverity ==
    \A k \in 1..Len(issues) : issues[k].type = "strength" => issues[k].severity = "strength"

\* p is no page of the document: absent, or outside 1..page_count
NoSuchPage(p) == p = None \/ p \notin 1..PageCount(doc)

\* C29: a section summary or a rewrite whose page number is absent or outside
\* the document draws nothing, and the run goes on to the next finding.
C29_NoPageDrawsNothing ==
    [][/\ (/\ pc = "annotate" /\ idx = Len(issues) /\ sidx < Len(section_summaries)
           /\ NoSuchPage(section_summaries[sidx + 1].page_num))
          => annots' = annots /\ sidx' = sidx + 1 /\ pc' = "annotate"
       /\ (/\ pc = "annotate" /\ idx = Len(issues) /\ sidx = Len(section_summaries)
           /\ ridx < Len(rewrites) /\ NoSuchPage(rewrites[ridx + 1].page_num))
          => annots' = annots /\ ridx' = ridx + 1 /\ pc' = "annotate"]_vars

\* C29 witness: a run over a one-page document has finished past summaries
\* without page and beyond the last page and rewrites without page and on a
\* page 2 that is not there, with the one summary box of page 1 drawn
C29_Witness ==
    /\ pc = "done" /\ Len(doc) = 1
    /\ \E k \in 1..Len(section_summaries) : section_summaries[k].page_num = None
    /\ \E k \in 1..Len(section_summaries) : section_summaries[k].page_num > Len(doc)
    /\ Len(rewrites) = 2 /\ \A k \in 1..2 : NoSuchPage(rewrites[k].page_num)
    /\ Len(SelectSeq(annots, LAMBDA a : a.kind = "summary_box")) = 1
    /\ SelectSeq(annots, LAMBDA a : a.kind \in {"underline", "rewrite_box", "rewrite_note"})
         = <<>>

(***************************************************************************)
(* A further claim about chunk_text, checked under SpecChunk.              *)
(***************************************************************************)
\* this step appends a chunk
AppendsChunk == Len(chunks') = Len(chunks) + 1

\* C30: start_char is 0 throughout, so every chunk has start_char 0, whichever
\* branch seeded it, and its end_char is the length of the buffer it was made
\* from, before whitespace stripping.
C30_StartCharStaysZero ==
    /\ [](start_char = 0 /\ \A k \in 1..Len(chunks) : chunks[k].start_char = 0)
    /\ [][AppendsChunk =>
             /\ chunks'[Len(chunks')].end_char = Len(current_chunk)
             /\ chunks'[Len(chunks')].text = Strip(current_chunk)]_vars

\* C30 witness: a page gave three chunks, the second seeded with overlap, and
\* one of them was stripped of whitespace, so its end_char is past its text
C30_Witness ==
    /\ pc = "done" /\ Len(chunks) >= 3 /\ overlap > 0
    /\ chunks[1].page_num = chunks[3].page_num
    /\ \E k \in 1..Len(chunks) : chunks[k].end_char > Len(chunks[k].text)

(***************************************************************************)
(* A claim about the vector store, checked under SpecStore.                *)
(***************************************************************************)
\* C28: a query of a session returns chunks of the document that session
\* processed, and never fails because another session built its index.
C28_SessionsKeepTheirIndex ==
    \A s \in Sessions :
        /\ retrieved[s].outcome # "raises"
        /\ retrieved[s].of \subseteq {s}
====
